---- MODULE Spec2Model ----
(***************************************************************************)
(* j2::MutexString (jstr): a std::string guarded by one std::mutex.        *)
(* Model of src/src/MutexString.hpp and src/src/MutexString.cpp: the       *)
(* single-call API, the Locked guard, CStrGuard, with_lock, the debug      *)
(* reentrancy marker tls_owner_ and the two-container operations.          *)
(***************************************************************************)
EXTENDS Integers, Sequences, FiniteSets, TLC

\* ------------------------------------------------------------------ bounds
\* Longest content the model lets a buffer hold (the model's max_size()).
MaxLen == 5
\* max_size() of the build that runs the example program testJstr().
TestLen == 15
\* Most sessions (guards, raw views, callbacks) alive at once in the process.
MaxSess == 2

\* ------------------------------------------------------------- the universe
Threads == {"t1", "t2"}
Containers == {"A", "B"}
\* The shared containers and N, the object a thread is constructing as a
\* copy of a shared one (a local of that thread).
Objects == Containers \cup {"N"}
nullptr == "nullptr"
free == "free"

\* Object addresses: swap(MutexString&) compares this < &other.
Addr(c) == IF c = "A" THEN 1 ELSE 2

Min(a, b) == IF a < b THEN a ELSE b

\* std::string::npos as a count: more than any length (the largest integer
\* of the model stands for the largest std::size_t).
npos == 2147483647

\* -------------------------------------------------------------------- state
VARIABLES
    s_,          \* s_[c]: the std::string of container c
    m_,          \* m_[c]: the thread that has locked the std::mutex of c, or free
    tls_owner_,  \* tls_owner_[t]: the thread-local reentrancy marker
    sess,        \* sess[t]: the live Locked / CStrGuard / with_lock scopes, innermost last
    call,        \* call[t]: the member function thread t is executing
    ret,         \* ret[t]: what thread t's last call returned, <<kind, value>>
    lin,         \* lin[c]: content of c by the calls completed so far, in order
    aborted,     \* <<t, c>> once thread t's assert on container c has fired
                 \* (abort() ends the process), << >> before
    NDEBUG,      \* TRUE for a release build: the tracker is compiled out
    snap,        \* snap[t]: thread t's local std::string (snap = x.str(), or the ext
                 \* it passes to swap), <<kind, value>>
    max_size,    \* s_.max_size(): the longest std::string the build supports
    pc           \* pc[t]: the statements of its program thread t has completed

\* ---------------------------------------------------------- std::string ops
\* An operation of the single-call API: name, position, count, text.
Op(n, p, k, x) == [name |-> n, pos |-> p, cnt |-> k, str |-> x]

FindNames == {"find", "rfind", "find_first_of", "find_last_of",
              "find_first_not_of", "find_last_not_of"}

ReadNames == {"str", "size", "eq", "at", "index", "substr", "copy", "compare"}
                \cup FindNames

\* Code of a character, for comparisons (NUL is the terminator std::string
\* keeps behind the last character).
NUL == "nul"
CharCode(ch) ==
    CASE ch = NUL -> 0  [] ch = "a" -> 1  [] ch = "b" -> 2  [] OTHER -> 3

\* std::string::compare / traits::compare: the sign of the first difference,
\* or of the difference of the lengths.
RECURSIVE Compare(_, _)
Compare(x, y) ==
    CASE x = << >> /\ y = << >> -> 0
      [] x = << >>               -> -1
      [] y = << >>               -> 1
      [] CharCode(Head(x)) < CharCode(Head(y)) -> -1
      [] CharCode(Head(x)) > CharCode(Head(y)) -> 1
      [] OTHER                   -> Compare(Tail(x), Tail(y))

\* The characters [pos, pos + min(cnt, size() - pos)) of b.
Sub(b, pos, cnt) == SubSeq(b, pos + 1, pos + Min(cnt, Len(b) - pos))

\* A swap that copies the second string over the first and leaves the second.
Swapped_first_only(x, y) == <<y, y>>

\* s_.swap(other): the two strings <<s_, other>> after the swap.
Swapped(x, y) == <<y, x>>

\* An insert that puts the text in front whatever the position.
Insert_front(b, pos, x) == x \o b

\* s_.insert(pos, s): the characters of s go in before position pos.
Insert(b, pos, x) == SubSeq(b, 1, pos) \o x \o SubSeq(b, pos + 1, Len(b))

\* std::string(count, ch), as in s_.insert(pos, count, ch).
Fill(n, ch) == [i \in 1..n |-> ch]

\* An erase that takes count at its word and cuts everything from pos on.
Erase_to_end(b, pos, cnt) == SubSeq(b, 1, pos)

\* s_.erase(pos, count): removes min(count, size() - pos) characters at pos.
Erase(b, pos, cnt) ==
    SubSeq(b, 1, pos) \o SubSeq(b, pos + 1 + Min(cnt, Len(b) - pos), Len(b))

\* What std::string does to content b (when it does not throw).
Apply(op, b) ==
    CASE op.name = "assign"    -> op.str
      [] op.name = "append"    -> b \o op.str
      [] op.name = "push_back" -> b \o op.str
      [] op.name = "clear"     -> << >>
      [] op.name = "insert"    -> Insert(b, op.pos, op.str)
      [] op.name = "insert_n"  -> Insert(b, op.pos, Fill(op.cnt, op.str[1]))
      [] op.name = "erase"     -> Erase(b, op.pos, op.cnt)
      [] op.name = "replace"   ->
            SubSeq(b, 1, op.pos) \o op.str
              \o SubSeq(b, op.pos + 1 + Min(op.cnt, Len(b) - op.pos), Len(b))
      [] op.name = "set"       -> [b EXCEPT ![op.pos + 1] = op.str[1]]
      [] op.name = "swap_str"  -> Swapped(b, op.str)[1]
      [] OTHER                 -> b

\* std::out_of_range: insert, erase, replace, substr, copy and compare throw
\* for pos > size(); at() (also under set) throws for pos >= size();
\* operator[] ("index") checks nothing.
OutOfRange(op, b) ==
    \/ /\ op.name \in {"insert", "insert_n", "erase", "replace", "substr", "copy",
                       "compare"}
       /\ op.pos > Len(b)
    \/ /\ op.name \in {"at", "set"}
       /\ op.pos >= Len(b)

\* std::length_error: the result would exceed max_size().
LengthError(op, b) == ~OutOfRange(op, b) /\ Len(Apply(op, b)) > max_size

Throws(op, b) == OutOfRange(op, b) \/ LengthError(op, b)

\* An operation that has emptied the string by the time it throws.
Result_cleared(op, b) == IF Throws(op, b) THEN << >> ELSE Apply(op, b)

\* The content after the operation (unchanged when it throws).
Result(op, b) == IF Throws(op, b) THEN b ELSE Apply(op, b)

\* The lowest / highest position of a set of positions, npos if there is none.
Lowest(S) == IF S = {} THEN npos ELSE CHOOSE i \in S : \A j \in S : i <= j
Highest(S) == IF S = {} THEN npos ELSE CHOOSE i \in S : \A j \in S : i >= j

\* The characters of a string, as a set.
CharsOf(x) == {x[i] : i \in 1..Len(x)}

\* The positions at which x occurs in b: an empty x occurs at every
\* position 0..size().
Occurs(b, x) == {i \in 0..(Len(b) - Len(x)) : SubSeq(b, i + 1, i + Len(x)) = x}

\* The positions of b holding a character of x (of = TRUE) or a character
\* not in x (of = FALSE).
Holds(b, x, of) == {i \in 0..(Len(b) - 1) : (b[i + 1] \in CharsOf(x)) = of}

\* std::string::find, rfind, find_first_of, find_last_of, find_first_not_of
\* and find_last_not_of: the forward searches start at pos, the backward
\* ones at min(pos, last candidate).
FindResult(op, b) ==
    CASE op.name = "find"   -> Lowest({i \in Occurs(b, op.str) : i >= op.pos})
      [] op.name = "rfind"  -> Highest({i \in Occurs(b, op.str) : i <= op.pos})
      [] op.name = "find_first_of" ->
            Lowest({i \in Holds(b, op.str, TRUE) : i >= op.pos})
      [] op.name = "find_last_of" ->
            Highest({i \in Holds(b, op.str, TRUE) : i <= op.pos})
      [] op.name = "find_first_not_of" ->
            Lowest({i \in Holds(b, op.str, FALSE) : i >= op.pos})
      [] op.name = "find_last_not_of" ->
            Highest({i \in Holds(b, op.str, FALSE) : i <= op.pos})

\* The value the call hands back to its caller.
Ret(op, b) ==
    CASE OutOfRange(op, b)   -> <<"throw", "out_of_range">>
      [] LengthError(op, b)  -> <<"throw", "length_error">>
      [] op.name = "str"     -> <<"str", b>>
      [] op.name = "size"    -> <<"size", Len(b)>>
      [] op.name = "eq"      -> <<"eq", b = op.str>>
      [] op.name = "at"      -> <<"char", b[op.pos + 1]>>
      [] op.name = "index"   -> <<"char", IF op.pos < Len(b) THEN b[op.pos + 1] ELSE NUL>>
      [] op.name = "substr"  -> <<"str", Sub(b, op.pos, op.cnt)>>
      [] op.name = "copy"    -> <<"copied", Sub(b, op.pos, op.cnt)>>
      [] op.name = "compare" -> <<"int", Compare(Sub(b, op.pos, op.cnt), op.str)>>
      [] op.name \in FindNames -> <<"pos", FindResult(op, b)>>
      [] op.name \in {"set", "push_back", "clear", "swap_str"} -> <<"void">>
      [] OTHER               -> <<"self">>

\* Every value the call can hand back. s_[pos] with pos > size() is undefined
\* behaviour: it reads past the terminator and yields whatever is there, or
\* the process dies on the access.
Rets(op, b) ==
    IF op.name = "index" /\ op.pos > Len(b)
    THEN {<<"char", x>> : x \in {"a", "b", NUL, "garbage"}} \cup {<<"crash">>}
    ELSE {Ret(op, b)}

\* A buffer caught in the middle of being overwritten: the first characters
\* already hold the new content, the rest (and the length) are still the old.
Torn(old, new) ==
    IF old = new THEN old
    ELSE LET k == (Min(Len(old), Len(new)) + 1) \div 2
         IN  SubSeq(new, 1, k) \o SubSeq(old, k + 1, Len(old))

vars == <<s_, m_, tls_owner_, sess, call, ret, lin, aborted, NDEBUG, snap, max_size, pc>>

Idle == [kind |-> "idle", c |-> nullptr, o |-> nullptr, op |-> Op("none", 0, 0, << >>),
         tmp |-> << >>, phase |-> "none", first |-> 0]

\* An activation record of a member function.
Call(k, c, o, op, tmp, ph, f) ==
    [kind |-> k, c |-> c, o |-> o, op |-> op, tmp |-> tmp, phase |-> ph, first |-> f]

\* A live scope object: Locked (kind "guard"), CStrGuard ("cstr"), or the
\* body of with_lock ("with": its ReentrancyMark and scoped_lock). The field
\* was is no member of the objects: it records the value the thread's marker
\* had when the scope was entered.
Frame(k, c, owns, mark, prev, mut, was) ==
    [kind |-> k, c |-> c, owns |-> owns, mark_set |-> mark, prev |-> prev,
     mut |-> mut, was |-> was]

Top(t) == sess[t][Len(sess[t])]
Pop(q) == SubSeq(q, 1, Len(q) - 1)

\* A thread is free to make its next call: it is not inside a member function.
\* (Inside with_lock before the lock is taken the callback is not running yet.)
CanStart(t) ==
    /\ aborted = << >>
    /\ call[t].kind = "idle"
    /\ ~(sess[t] # << >> /\ Top(t).kind = "with" /\ ~Top(t).owns)

\* Room for one more session object.
Room == Len(sess["t1"]) + Len(sess["t2"]) < MaxSess

\* A tracker that objects to any open session, whatever its container.
assert_no_session_(t, c) == NDEBUG \/ tls_owner_[t] = nullptr

\* A tracker that never objects.
assert_never_(t, c) == TRUE

\* assert_not_reentrant_(): the assertion holds.
assert_not_reentrant_(t, c) == NDEBUG \/ tls_owner_[t] # c


\* ------------------------------------------------------------ construction
\* MutexString(std::string s) / MutexString(const char* s): two containers,
\* no lock held, no call under way, the marker empty.
Init ==
    /\ s_ = [c \in Objects |->
                CASE c = "A" -> <<"a">> [] c = "B" -> <<"b">> [] OTHER -> << >>]
    /\ m_ = [c \in Objects |-> free]
    /\ tls_owner_ = [t \in Threads |-> nullptr]
    /\ sess = [t \in Threads |-> << >>]
    /\ call = [t \in Threads |-> Idle]
    /\ ret = [t \in Threads |-> <<"none">>]
    /\ lin = s_
    /\ aborted = << >>
    /\ NDEBUG \in BOOLEAN
    /\ snap = [t \in Threads |-> <<"none">>]
    /\ max_size = MaxLen
    /\ pc = [t \in Threads |-> 0]

\* assert(...) failed: abort() ends the process; nothing moves afterwards.
Abort(t, c) ==
    /\ aborted' = <<t, c>>
    /\ UNCHANGED <<s_, m_, tls_owner_, sess, call, ret, lin, NDEBUG, snap, max_size, pc>>

\* ------------------------------------------------------- the single-call API
\* Entry of a single-call member (operator=, append, insert, erase, replace,
\* push_back, clear, str, size, operator==, ...): assert_not_reentrant_().
call_begin(t, c, op) ==
    /\ CanStart(t)
    /\ IF assert_not_reentrant_(t, c)
       THEN /\ call' = [call EXCEPT ![t] = Call("call", c, nullptr, op, << >>, "lock", 0)]
            /\ ret' = [ret EXCEPT ![t] = <<"none">>]
            /\ UNCHANGED <<s_, m_, tls_owner_, sess, lin, aborted, NDEBUG, snap, max_size, pc>>
       ELSE Abort(t, c)

\* A single call that starts on the buffer without waiting for the mutex.
call_enter_racy(t) ==
    /\ aborted = << >>
    /\ call[t].kind = "call" /\ call[t].phase = "lock"
    /\ m_' = [m_ EXCEPT ![call[t].c] = t]
    /\ call' = [call EXCEPT ![t].phase = "in", ![t].tmp = s_[call[t].c]]
    /\ s_' = [s_ EXCEPT ![call[t].c] = Torn(@, Result(call[t].op, @))]
    /\ UNCHANGED <<tls_owner_, sess, ret, lin, aborted, NDEBUG, snap, max_size, pc>>

\* std::scoped_lock lock(m_): blocks until the mutex is free, then the
\* std::string operation starts on the buffer.
call_enter(t) ==
    /\ aborted = << >>
    /\ call[t].kind = "call" /\ call[t].phase = "lock"
    /\ m_[call[t].c] = free
    /\ m_' = [m_ EXCEPT ![call[t].c] = t]
    /\ call' = [call EXCEPT ![t].phase = "in", ![t].tmp = s_[call[t].c]]
    /\ s_' = [s_ EXCEPT ![call[t].c] = Torn(@, Result(call[t].op, @))]
    /\ UNCHANGED <<tls_owner_, sess, ret, lin, aborted, NDEBUG, snap, max_size, pc>>

\* A call whose returned string goes on sharing the container's buffer: what
\* the call writes shows in every value handed out before.
call_leave_shared(t) ==
    /\ aborted = << >>
    /\ call[t].kind = "call" /\ call[t].phase = "in"
    /\ s_' = [s_ EXCEPT ![call[t].c] = Result(call[t].op, call[t].tmp)]
    /\ lin' = [lin EXCEPT ![call[t].c] = Result(call[t].op, @)]
    /\ \E v \in Rets(call[t].op, call[t].tmp) : ret' = [ret EXCEPT ![t] = v]
    /\ m_' = [m_ EXCEPT ![call[t].c] = free]
    /\ call' = [call EXCEPT ![t] = Idle]
    /\ snap' = [u \in Threads |->
                 IF snap[u] = <<"none">> THEN snap[u]
                 ELSE <<snap[u][1], Result(call[t].op, call[t].tmp)>>]
    /\ UNCHANGED <<tls_owner_, sess, aborted, NDEBUG, max_size, pc>>

\* A call that returns with the mutex still locked.
call_leave_locked(t) ==
    /\ aborted = << >>
    /\ call[t].kind = "call" /\ call[t].phase = "in"
    /\ s_' = [s_ EXCEPT ![call[t].c] = Result(call[t].op, call[t].tmp)]
    /\ lin' = [lin EXCEPT ![call[t].c] = Result(call[t].op, @)]
    /\ \E v \in Rets(call[t].op, call[t].tmp) : ret' = [ret EXCEPT ![t] = v]
    /\ call' = [call EXCEPT ![t] = Idle]
    /\ UNCHANGED <<m_, tls_owner_, sess, aborted, NDEBUG, snap, max_size, pc>>

\* The std::string operation completes, the scoped_lock is destroyed (also
\* when the operation throws) and the member returns.
call_leave(t) ==
    /\ aborted = << >>
    /\ call[t].kind = "call" /\ call[t].phase = "in"
    /\ s_' = [s_ EXCEPT ![call[t].c] = Result(call[t].op, call[t].tmp)]
    /\ lin' = [lin EXCEPT ![call[t].c] = Result(call[t].op, @)]
    /\ \E v \in Rets(call[t].op, call[t].tmp) : ret' = [ret EXCEPT ![t] = v]
    /\ m_' = [m_ EXCEPT ![call[t].c] = free]
    /\ call' = [call EXCEPT ![t] = Idle]
    /\ snap' = IF call[t].op.name = "swap_str"
               THEN [snap EXCEPT ![t] =
                        <<"str", Swapped(call[t].tmp, call[t].op.str)[2]>>]
               ELSE snap
    /\ UNCHANGED <<tls_owner_, sess, aborted, NDEBUG, max_size, pc>>

\* std::string snap = x.str(): the std::string the call returned by value
\* (or the characters copy() wrote to the caller's array) becomes a local of
\* the calling thread.
snapshot(t) ==
    /\ aborted = << >>
    /\ call[t].kind = "idle"
    /\ ret[t][1] \in {"str", "copied"}
    /\ snap' = [snap EXCEPT ![t] = ret[t]]
    /\ ret' = [ret EXCEPT ![t] = <<"none">>]
    /\ UNCHANGED <<s_, m_, tls_owner_, sess, call, lin, aborted, NDEBUG, max_size, pc>>

\* ----------------------------------------------------------- Locked (guard)
\* synchronize() / guard(), mutable (mut) or const overload:
\* assert_not_reentrant_(), then Locked{s_, m_, this} is constructed.
synchronize(t, c, mut) ==
    /\ CanStart(t)
    /\ Room
    /\ IF assert_not_reentrant_(t, c)
       THEN /\ call' = [call EXCEPT ![t] =
                    Call(IF mut THEN "guard" ELSE "cguard", c, nullptr,
                         Op("synchronize", 0, 0, << >>), << >>, "lock", 0)]
            /\ UNCHANGED <<s_, m_, tls_owner_, sess, ret, lin, aborted, NDEBUG, snap, max_size, pc>>
       ELSE Abort(t, c)

\* A guard constructed without waiting for the mutex.
Locked_ctor_racy(t) ==
    /\ aborted = << >>
    /\ call[t].kind \in {"guard", "cguard"} /\ call[t].phase = "lock"
    /\ m_' = [m_ EXCEPT ![call[t].c] = t]
    /\ tls_owner_' = IF NDEBUG THEN tls_owner_
                     ELSE [tls_owner_ EXCEPT ![t] = call[t].c]
    /\ sess' = [sess EXCEPT ![t] = Append(@,
            Frame("guard", call[t].c, TRUE, ~NDEBUG, nullptr,
                  call[t].kind = "guard", tls_owner_[t]))]
    /\ call' = [call EXCEPT ![t] = Idle]
    /\ UNCHANGED <<s_, ret, lin, aborted, NDEBUG, snap, max_size, pc>>

\* Locked::Locked: lock_(m) blocks until the mutex is free; then, in a debug
\* build, the assert and tls_owner_ = owner_, mark_set_ = true.
Locked_ctor(t) ==
    /\ aborted = << >>
    /\ call[t].kind \in {"guard", "cguard"} /\ call[t].phase = "lock"
    /\ m_[call[t].c] = free
    /\ IF NDEBUG \/ tls_owner_[t] # call[t].c
       THEN /\ m_' = [m_ EXCEPT ![call[t].c] = t]
            /\ tls_owner_' = IF NDEBUG THEN tls_owner_
                             ELSE [tls_owner_ EXCEPT ![t] = call[t].c]
            /\ sess' = [sess EXCEPT ![t] = Append(@,
                    Frame("guard", call[t].c, TRUE, ~NDEBUG, nullptr,
                          call[t].kind = "guard", tls_owner_[t]))]
            /\ call' = [call EXCEPT ![t] = Idle]
            /\ UNCHANGED <<s_, ret, lin, aborted, NDEBUG, snap, max_size, pc>>
       ELSE /\ m_' = [m_ EXCEPT ![call[t].c] = t]
            /\ aborted' = <<t, call[t].c>>
            /\ UNCHANGED <<s_, tls_owner_, sess, call, ret, lin, NDEBUG, snap, max_size, pc>>

\* A guard whose destructor leaves the mutex locked.
Locked_dtor_leak(t) ==
    /\ CanStart(t)
    /\ sess[t] # << >> /\ Top(t).kind = "guard"
    /\ tls_owner_' = IF ~NDEBUG /\ Top(t).mark_set /\ tls_owner_[t] = Top(t).c
                     THEN [tls_owner_ EXCEPT ![t] = nullptr]
                     ELSE tls_owner_
    /\ sess' = [sess EXCEPT ![t] = Pop(@)]
    /\ UNCHANGED <<s_, m_, call, ret, lin, aborted, NDEBUG, snap, max_size, pc>>

\* A guard whose destructor releases the mutex whether it owns it or not.
Locked_dtor_always(t) ==
    /\ CanStart(t)
    /\ sess[t] # << >> /\ Top(t).kind = "guard"
    /\ tls_owner_' = IF ~NDEBUG /\ Top(t).mark_set /\ tls_owner_[t] = Top(t).c
                     THEN [tls_owner_ EXCEPT ![t] = nullptr]
                     ELSE tls_owner_
    /\ m_' = [m_ EXCEPT ![Top(t).c] = free]
    /\ sess' = [sess EXCEPT ![t] = Pop(@)]
    /\ UNCHANGED <<s_, call, ret, lin, aborted, NDEBUG, snap, max_size, pc>>

\* Locked::~Locked at the end of the guard's scope (normal or by an
\* exception): the marker is cleared if it still names the owner, then the
\* unique_lock member releases the mutex if it owns it.
Locked_dtor(t) ==
    /\ CanStart(t)
    /\ sess[t] # << >> /\ Top(t).kind = "guard"
    /\ tls_owner_' = IF ~NDEBUG /\ Top(t).mark_set /\ tls_owner_[t] = Top(t).c
                     THEN [tls_owner_ EXCEPT ![t] = nullptr]
                     ELSE tls_owner_
    /\ m_' = IF Top(t).owns THEN [m_ EXCEPT ![Top(t).c] = free] ELSE m_
    /\ sess' = [sess EXCEPT ![t] = Pop(@)]
    /\ UNCHANGED <<s_, call, ret, lin, aborted, NDEBUG, snap, max_size, pc>>

\* Locked::unlock() on the i-th scope of the thread: lock_.unlock() throws
\* std::system_error when the lock is not owned; otherwise the mutex is
\* released and, in a debug build, the marker cleared if it names the owner.
Locked_unlock(t, i) ==
    /\ CanStart(t)
    /\ i \in 1..Len(sess[t]) /\ sess[t][i].kind = "guard"
    /\ IF sess[t][i].owns
       THEN /\ m_' = [m_ EXCEPT ![sess[t][i].c] = free]
            /\ IF ~NDEBUG /\ sess[t][i].mark_set /\ tls_owner_[t] = sess[t][i].c
               THEN /\ tls_owner_' = [tls_owner_ EXCEPT ![t] = nullptr]
                    /\ sess' = [sess EXCEPT ![t][i].owns = FALSE,
                                            ![t][i].mark_set = FALSE]
               ELSE /\ sess' = [sess EXCEPT ![t][i].owns = FALSE]
                    /\ UNCHANGED tls_owner_
            /\ UNCHANGED ret
       ELSE /\ ret' = [ret EXCEPT ![t] = <<"throw", "system_error">>]
            /\ UNCHANGED <<m_, tls_owner_, sess>>
    /\ UNCHANGED <<s_, call, lin, aborted, NDEBUG, snap, max_size, pc>>

\* The pointer members of a Locked: the constructor from std::string& sets
\* s_ and leaves cs_ null, the one from const std::string& sets cs_ and
\* leaves s_ null.
Locked_s_(f) == IF f.mut THEN f.c ELSE nullptr
Locked_cs_(f) == IF f.mut THEN nullptr ELSE f.c

\* What an accessor of the guard designates: the non-const operator-> and
\* operator* use s_, the const ones cs_ ? cs_ : s_.
Accessor(f, cnst) ==
    IF cnst THEN (IF Locked_cs_(f) # nullptr THEN Locked_cs_(f) ELSE Locked_s_(f))
    ELSE Locked_s_(f)

\* Locked::operator-> ("arrow") or operator* ("star") on the i-th scope of
\* the thread, const or non-const form. operator-> returns the pointer as it
\* is; operator* dereferences it, which is undefined for a null pointer (a
\* reference to nothing comes back, or the process dies).
Locked_deref(t, i, form, cnst) ==
    /\ CanStart(t)
    /\ i \in 1..Len(sess[t]) /\ sess[t][i].kind = "guard"
    /\ \E v \in IF form = "star" /\ Accessor(sess[t][i], cnst) = nullptr
                 THEN {<<form, nullptr>>, <<"crash">>}
                 ELSE {<<form, Accessor(sess[t][i], cnst)>>} :
          ret' = [ret EXCEPT ![t] = v]
    /\ UNCHANGED <<s_, m_, tls_owner_, sess, call, lin, aborted, NDEBUG, snap, max_size, pc>>

\* ------------------------------------------------------- CStrGuard (raw view)
\* c_str(): assert_not_reentrant_(), then CStrGuard{s_, m_} is constructed.
c_str(t, c) ==
    /\ CanStart(t)
    /\ Room
    /\ IF assert_not_reentrant_(t, c)
       THEN /\ call' = [call EXCEPT ![t] =
                    Call("cstr", c, nullptr, Op("c_str", 0, 0, << >>), << >>, "lock", 0)]
            /\ UNCHANGED <<s_, m_, tls_owner_, sess, ret, lin, aborted, NDEBUG, snap, max_size, pc>>
       ELSE Abort(t, c)

\* CStrGuard::CStrGuard: lock_(m), p_(s.c_str()); the marker is not touched.
CStrGuard_ctor(t) ==
    /\ aborted = << >>
    /\ call[t].kind = "cstr" /\ call[t].phase = "lock"
    /\ m_[call[t].c] = free
    /\ m_' = [m_ EXCEPT ![call[t].c] = t]
    /\ sess' = [sess EXCEPT ![t] = Append(@,
            Frame("cstr", call[t].c, TRUE, FALSE, nullptr, FALSE, tls_owner_[t]))]
    /\ call' = [call EXCEPT ![t] = Idle]
    /\ UNCHANGED <<s_, tls_owner_, ret, lin, aborted, NDEBUG, snap, max_size, pc>>

\* The CStrGuard goes out of scope: its unique_lock releases the mutex.
CStrGuard_dtor(t) ==
    /\ CanStart(t)
    /\ sess[t] # << >> /\ Top(t).kind = "cstr"
    /\ m_' = [m_ EXCEPT ![Top(t).c] = free]
    /\ sess' = [sess EXCEPT ![t] = Pop(@)]
    /\ UNCHANGED <<s_, tls_owner_, call, ret, lin, aborted, NDEBUG, snap, max_size, pc>>


\* ------------------------------------------------------ with_lock / with
\* with_lock(f), mutable (mut) or const overload: assert_not_reentrant_(),
\* then ReentrancyMark _rmk{this} saves the marker in prev and sets it.
with_lock(t, c, mut) ==
    /\ CanStart(t)
    /\ Room
    /\ IF assert_not_reentrant_(t, c)
       THEN /\ tls_owner_' = IF NDEBUG THEN tls_owner_
                             ELSE [tls_owner_ EXCEPT ![t] = c]
            /\ sess' = [sess EXCEPT ![t] = Append(@,
                    Frame("with", c, FALSE, ~NDEBUG, tls_owner_[t], mut, tls_owner_[t]))]
            /\ UNCHANGED <<s_, m_, call, ret, lin, aborted, NDEBUG, snap, max_size, pc>>
       ELSE Abort(t, c)

\* std::scoped_lock lock(m_) inside with_lock: blocks until the mutex is
\* free; then f(s_) is invoked.
with_lock_acquire(t) ==
    /\ aborted = << >>
    /\ call[t].kind = "idle"
    /\ sess[t] # << >> /\ Top(t).kind = "with" /\ ~Top(t).owns
    /\ m_[Top(t).c] = free
    /\ m_' = [m_ EXCEPT ![Top(t).c] = t]
    /\ sess' = [sess EXCEPT ![t][Len(sess[t])].owns = TRUE]
    /\ UNCHANGED <<s_, tls_owner_, call, ret, lin, aborted, NDEBUG, snap, max_size, pc>>

\* A with_lock that returns with the mutex still locked.
with_lock_return_held(t, thrown) ==
    /\ CanStart(t)
    /\ sess[t] # << >> /\ Top(t).kind = "with" /\ Top(t).owns
    /\ tls_owner_' = IF NDEBUG THEN tls_owner_
                     ELSE [tls_owner_ EXCEPT ![t] = Top(t).prev]
    /\ ret' = [ret EXCEPT ![t] = IF thrown THEN <<"throw", "exception">> ELSE @]
    /\ sess' = [sess EXCEPT ![t] = Pop(@)]
    /\ UNCHANGED <<s_, m_, call, lin, aborted, NDEBUG, snap, max_size, pc>>

\* f returns the last value it obtained (thrown = FALSE) or throws: the
\* scoped_lock is destroyed, then ~ReentrancyMark restores the marker, and
\* with_lock hands f's result (or the exception) to its caller.
with_lock_return(t, thrown) ==
    /\ CanStart(t)
    /\ sess[t] # << >> /\ Top(t).kind = "with" /\ Top(t).owns
    /\ m_' = [m_ EXCEPT ![Top(t).c] = free]
    /\ tls_owner_' = IF NDEBUG THEN tls_owner_
                     ELSE [tls_owner_ EXCEPT ![t] = Top(t).prev]
    /\ ret' = [ret EXCEPT ![t] = IF thrown THEN <<"throw", "exception">> ELSE @]
    /\ sess' = [sess EXCEPT ![t] = Pop(@)]
    /\ UNCHANGED <<s_, call, lin, aborted, NDEBUG, snap, max_size, pc>>

\* ------------------------------------- the buffer seen from inside a session
\* The std::string operations a session of this kind lets its holder apply:
\* Locked::operator-> / operator* give the whole std::string (read-only from
\* the const overload), f receives std::string& or const std::string&, and
\* CStrGuard::get() gives a const char*.
Permits(f, op) ==
    CASE f.kind = "cstr" -> op.name = "str"
      [] f.mut           -> TRUE
      [] OTHER           -> op.name \in ReadNames

\* The holder of the i-th scope starts a std::string operation on the
\* buffer through the guard, the callback's reference or the raw pointer.
buffer_access_begin(t, i, op) ==
    /\ CanStart(t)
    /\ i \in 1..Len(sess[t])
    /\ sess[t][i].owns
    /\ Permits(sess[t][i], op)
    /\ call' = [call EXCEPT ![t] =
            Call("access", sess[t][i].c, nullptr, op, s_[sess[t][i].c], "in", i)]
    /\ s_' = [s_ EXCEPT ![sess[t][i].c] = Torn(@, Result(op, @))]
    /\ ret' = [ret EXCEPT ![t] = <<"none">>]
    /\ UNCHANGED <<m_, tls_owner_, sess, lin, aborted, NDEBUG, snap, max_size, pc>>

\* The operation completes and hands its value to the holder (inside
\* with_lock: to f, which returns the last value it obtained).
buffer_access_end(t) ==
    /\ aborted = << >>
    /\ call[t].kind = "access"
    /\ s_' = [s_ EXCEPT ![call[t].c] = Result(call[t].op, call[t].tmp)]
    /\ lin' = [lin EXCEPT ![call[t].c] = Result(call[t].op, @)]
    /\ \E v \in Rets(call[t].op, call[t].tmp) : ret' = [ret EXCEPT ![t] = v]
    /\ call' = [call EXCEPT ![t] = Idle]
    /\ UNCHANGED <<m_, tls_owner_, sess, aborted, NDEBUG, snap, max_size, pc>>

\* ------------------------------------------- locking a mutex already owned
\* lock() on a std::mutex the calling thread owns is undefined behaviour: the
\* thread blocks for ever (no step: the acquiring actions wait for a free
\* mutex), or the implementation detects it and lock() throws
\* std::system_error (resource_deadlock_would_occur). This is the second
\* outcome: the constructor of the scoped_lock / unique_lock throws, the
\* member is left by the exception (in with_lock ~ReentrancyMark restores
\* the marker on the way out) and the mutex stays with the session that
\* owns it.
mutex_relock(t) ==
    /\ aborted = << >>
    /\ \/ /\ call[t].kind \in {"call", "guard", "cguard", "cstr"}
          /\ call[t].phase = "lock"
          /\ m_[call[t].c] = t
          /\ call' = [call EXCEPT ![t] = Idle]
          /\ UNCHANGED <<sess, tls_owner_>>
       \/ /\ call[t].kind = "idle"
          /\ sess[t] # << >> /\ Top(t).kind = "with" /\ ~Top(t).owns
          /\ m_[Top(t).c] = t
          /\ tls_owner_' = IF NDEBUG THEN tls_owner_
                           ELSE [tls_owner_ EXCEPT ![t] = Top(t).prev]
          /\ sess' = [sess EXCEPT ![t] = Pop(@)]
          /\ UNCHANGED call
    /\ ret' = [ret EXCEPT ![t] = <<"throw", "system_error">>]
    /\ UNCHANGED <<s_, m_, lin, aborted, NDEBUG, snap, max_size, pc>>

\* ------------------------------------------------ two-container operations
CrossNames == {"copy_assign", "move_assign", "swap"}

\* The mutexes in the order they are handed to std::scoped_lock:
\* operator= passes (m_, other.m_); swap passes (first->m_, second->m_)
\* with first the object at the lower address.
LockSeq(k) ==
    IF k.op.name = "swap"
    THEN IF Addr(k.c) < Addr(k.o) THEN <<k.c, k.o>> ELSE <<k.o, k.c>>
    ELSE <<k.c, k.o>>

\* An operator= / swap without the test for this == &other: the assertion
\* and the locking run for a self-assignment too.
cross_begin_no_self_test(t, c, o, name) ==
    /\ CanStart(t)
    /\ IF /\ assert_not_reentrant_(t, c)
          /\ (name = "swap" => assert_not_reentrant_(t, o))
       THEN /\ call' = [call EXCEPT ![t] =
                   Call("cross", c, o, Op(name, 0, 0, << >>), << >>, "lock_first", 1)]
            /\ ret' = [ret EXCEPT ![t] = <<"none">>]
            /\ UNCHANGED <<s_, m_, tls_owner_, sess, lin, aborted, NDEBUG, snap, max_size, pc>>
       ELSE Abort(t, c)

\* operator=(const MutexString&), operator=(MutexString&&), swap(MutexString&)
\* on this = c with other = o. Self-assignment and self-swap return at once.
\* Debug: operator= asserts on this only, swap on this and on other.
cross_begin(t, c, o, name) ==
    /\ CanStart(t)
    /\ IF c = o
       THEN /\ ret' = [ret EXCEPT ![t] = <<"self">>]
            /\ UNCHANGED <<s_, m_, tls_owner_, sess, call, lin, aborted, NDEBUG, snap, max_size, pc>>
       ELSE IF /\ assert_not_reentrant_(t, c)
               /\ (name = "swap" => assert_not_reentrant_(t, o))
            THEN /\ call' = [call EXCEPT ![t] =
                        Call("cross", c, o, Op(name, 0, 0, << >>), << >>, "lock_first", 1)]
                 /\ ret' = [ret EXCEPT ![t] = <<"none">>]
                 /\ UNCHANGED <<s_, m_, tls_owner_, sess, lin, aborted, NDEBUG, snap, max_size, pc>>
            ELSE Abort(t, c)

\* std::lock inside std::scoped_lock(m1, m2): block on the mutex at index
\* first while holding none.
std_lock_first(t) ==
    /\ aborted = << >>
    /\ call[t].kind = "cross" /\ call[t].phase = "lock_first"
    /\ m_[LockSeq(call[t])[call[t].first]] = free
    /\ m_' = [m_ EXCEPT ![LockSeq(call[t])[call[t].first]] = t]
    /\ call' = [call EXCEPT ![t].phase = "try_rest"]
    /\ UNCHANGED <<s_, tls_owner_, sess, ret, lin, aborted, NDEBUG, snap, max_size, pc>>

\* Locking the two mutexes one after the other: with the first held, wait
\* for the second.
std_lock_try_wait(t) ==
    /\ aborted = << >>
    /\ call[t].kind = "cross" /\ call[t].phase = "try_rest"
    /\ LET k == call[t]
           other == LockSeq(k)[3 - k.first]
       IN  /\ m_[other] = free
           /\ m_' = [m_ EXCEPT ![other] = t]
           /\ call' = [call EXCEPT ![t].phase = "in", ![t].first = 1,
                                   ![t].tmp = <<s_[k.c], s_[k.o]>>]
           /\ s_' = [s_ EXCEPT ![k.c] =
                       IF k.op.name = "swap" THEN s_[k.o] ELSE Torn(@, s_[k.o])]
    /\ UNCHANGED <<tls_owner_, sess, ret, lin, aborted, NDEBUG, snap, max_size, pc>>

\* Going on with only the first mutex held.
std_lock_try_skip(t) ==
    /\ aborted = << >>
    /\ call[t].kind = "cross" /\ call[t].phase = "try_rest"
    /\ LET k == call[t]
       IN  /\ call' = [call EXCEPT ![t].phase = "in", ![t].first = 1,
                                   ![t].tmp = <<s_[k.c], s_[k.o]>>]
           /\ s_' = [s_ EXCEPT ![k.c] =
                       IF k.op.name = "swap" THEN s_[k.o] ELSE Torn(@, s_[k.o])]
    /\ UNCHANGED <<m_, tls_owner_, sess, ret, lin, aborted, NDEBUG, snap, max_size, pc>>

\* std::lock: try_lock the other mutex. Success: both are held and the
\* std::string assignment or swap starts. Failure: back off.
std_lock_try(t) ==
    /\ aborted = << >>
    /\ call[t].kind = "cross" /\ call[t].phase = "try_rest"
    /\ LET k == call[t]
           other == LockSeq(k)[3 - k.first]
       IN  IF m_[other] = free
           THEN /\ m_' = [m_ EXCEPT ![other] = t]
                /\ call' = [call EXCEPT ![t].phase = "in", ![t].first = 1,
                                        ![t].tmp = <<s_[k.c], s_[k.o]>>]
                /\ s_' = [s_ EXCEPT ![k.c] =
                            IF k.op.name = "swap" THEN s_[k.o] ELSE Torn(@, s_[k.o])]
           ELSE /\ call' = [call EXCEPT ![t].phase = "backoff"]
                /\ UNCHANGED <<s_, m_>>
    /\ UNCHANGED <<tls_owner_, sess, ret, lin, aborted, NDEBUG, snap, max_size, pc>>

\* std::lock after a failed try_lock: release the mutex held and start over
\* with the mutex that was busy.
std_lock_backoff(t) ==
    /\ aborted = << >>
    /\ call[t].kind = "cross" /\ call[t].phase = "backoff"
    /\ m_' = [m_ EXCEPT ![LockSeq(call[t])[call[t].first]] = free]
    /\ call' = [call EXCEPT ![t].phase = "lock_first", ![t].first = 3 - @]
    /\ UNCHANGED <<s_, tls_owner_, sess, ret, lin, aborted, NDEBUG, snap, max_size, pc>>

\* s_ = other.s_, s_ = std::move(other.s_) or s_.swap(other.s_) completes
\* and the scoped_lock releases both mutexes. A moved-from std::string is
\* valid but unspecified: left empty, or left as it was.
cross_end(t, keep) ==
    /\ aborted = << >>
    /\ call[t].kind = "cross" /\ call[t].phase = "in"
    /\ (keep => call[t].op.name = "move_assign")
    /\ LET k == call[t]
           newc == IF k.op.name = "swap" THEN Swapped(k.tmp[1], k.tmp[2])[1]
                   ELSE k.tmp[2]
           newo(old) == CASE k.op.name = "swap" -> Swapped(k.tmp[1], k.tmp[2])[2]
                          [] k.op.name = "move_assign" /\ ~keep -> << >>
                          [] OTHER -> old
       IN  /\ s_' = [s_ EXCEPT ![k.c] = newc, ![k.o] = newo(k.tmp[2])]
           /\ lin' = [x \in Objects |->
                        CASE x = k.c -> lin[k.o]
                          [] x = k.o -> IF k.op.name = "swap" THEN lin[k.c]
                                        ELSE IF k.op.name = "move_assign" /\ ~keep
                                             THEN << >> ELSE lin[k.o]
                          [] OTHER -> lin[x]]
           /\ m_' = [m_ EXCEPT ![k.c] = free, ![k.o] = free]
    /\ ret' = [ret EXCEPT ![t] = IF call[t].op.name = "swap" THEN <<"void">> ELSE <<"self">>]
    /\ call' = [call EXCEPT ![t] = Idle]
    /\ UNCHANGED <<tls_owner_, sess, aborted, NDEBUG, snap, max_size, pc>>

\* ------------------------------------------------- copy / move construction
CtorNames == {"copy_ctor", "move_ctor"}

\* MutexString(const MutexString& other) / MutexString(MutexString&& other)
\* constructing the thread's local N from other = o: the members s_ (empty)
\* and m_ are default-constructed, then assert_not_reentrant_() on this.
ctor_begin(t, o, name) ==
    /\ CanStart(t)
    /\ IF assert_not_reentrant_(t, "N")
       THEN /\ call' = [call EXCEPT ![t] =
                    Call("ctor", "N", o, Op(name, 0, 0, << >>), << >>, "lock", 0)]
            /\ s_' = [s_ EXCEPT !["N"] = << >>]
            /\ lin' = [lin EXCEPT !["N"] = << >>]
            /\ ret' = [ret EXCEPT ![t] = <<"none">>]
            /\ UNCHANGED <<m_, tls_owner_, sess, aborted, NDEBUG, snap, max_size, pc>>
       ELSE Abort(t, "N")

\* std::scoped_lock lock(other.m_): blocks until other's mutex is free; this
\* object's own mutex is not touched. Then s_ = other.s_ starts.
ctor_enter(t) ==
    /\ aborted = << >>
    /\ call[t].kind = "ctor" /\ call[t].phase = "lock"
    /\ m_[call[t].o] = free
    /\ m_' = [m_ EXCEPT ![call[t].o] = t]
    /\ call' = [call EXCEPT ![t].phase = "in",
                            ![t].tmp = <<s_[call[t].c], s_[call[t].o]>>]
    /\ s_' = [s_ EXCEPT ![call[t].c] = Torn(@, s_[call[t].o])]
    /\ UNCHANGED <<tls_owner_, sess, ret, lin, aborted, NDEBUG, snap, max_size, pc>>

\* s_ = other.s_ or s_ = std::move(other.s_) completes and the scoped_lock
\* releases other's mutex. A moved-from std::string is left empty, or as is.
ctor_end(t, keep) ==
    /\ aborted = << >>
    /\ call[t].kind = "ctor" /\ call[t].phase = "in"
    /\ (keep => call[t].op.name = "move_ctor")
    /\ LET k == call[t]
           gone == k.op.name = "move_ctor" /\ ~keep
       IN  /\ s_' = [s_ EXCEPT ![k.c] = k.tmp[2],
                               ![k.o] = IF gone THEN << >> ELSE k.tmp[2]]
           /\ lin' = [lin EXCEPT ![k.c] = lin[k.o],
                                 ![k.o] = IF gone THEN << >> ELSE @]
           /\ m_' = [m_ EXCEPT ![k.o] = free]
    /\ ret' = [ret EXCEPT ![t] = <<"constructed">>]
    /\ call' = [call EXCEPT ![t] = Idle]
    /\ UNCHANGED <<tls_owner_, sess, aborted, NDEBUG, snap, max_size, pc>>

\* ------------------------------------------------------------ the program
Chars == {"a", "b"}

\* The single-call operations the threads of the general program issue.
Ops == {Op("assign", 0, 0, <<"b">>), Op("str", 0, 0, << >>)}

Next ==
    \/ \E t \in Threads, c \in Containers, op \in Ops : call_begin(t, c, op)
    \/ \E t \in Threads : call_enter(t)
    \/ \E t \in Threads : call_leave(t)
    \/ \E t \in Threads, c \in Containers : synchronize(t, c, TRUE)
    \/ \E t \in Threads : Locked_ctor(t)
    \/ \E t \in Threads : Locked_dtor(t)
    \/ \E t \in Threads, i \in 1..MaxSess : Locked_unlock(t, i)
    \/ \E t \in Threads, c \in Containers : c_str(t, c)
    \/ \E t \in Threads : CStrGuard_ctor(t)
    \/ \E t \in Threads : CStrGuard_dtor(t)
    \/ \E t \in Threads, c \in Containers : with_lock(t, c, TRUE)
    \/ \E t \in Threads : with_lock_acquire(t)
    \/ \E t \in Threads, thrown \in BOOLEAN : with_lock_return(t, thrown)
    \/ \E t \in Threads, i \in 1..MaxSess, op \in Ops : buffer_access_begin(t, i, op)
    \/ \E t \in Threads : buffer_access_end(t)
    \/ \E t \in Threads : mutex_relock(t)

Spec == Init /\ [][Next]_vars

\* The two-container operations alone.
NextCross ==
    \/ \E t \in Threads, c, o \in Containers, n \in CrossNames : cross_begin(t, c, o, n)
    \/ \E t \in Threads : std_lock_first(t)
    \/ \E t \in Threads : std_lock_try(t)
    \/ \E t \in Threads : std_lock_backoff(t)
    \/ \E t \in Threads, keep \in BOOLEAN : cross_end(t, keep)

SpecCross == Init /\ [][NextCross]_vars

\* Every operation between two objects: both threads assign and swap between
\* A and B, and t1 also constructs its local N from A or from B.
NextTwo ==
    \/ \E t \in Threads, c, o \in Containers, n \in CrossNames : cross_begin(t, c, o, n)
    \/ \E t \in Threads : std_lock_first(t)
    \/ \E t \in Threads : std_lock_try(t)
    \/ \E t \in Threads : std_lock_backoff(t)
    \/ \E t \in Threads, keep \in BOOLEAN : cross_end(t, keep)
    \/ \E o \in Containers, n \in CtorNames : ctor_begin("t1", o, n)
    \/ ctor_enter("t1")
    \/ \E keep \in BOOLEAN : ctor_end("t1", keep)

SpecTwo == Init /\ [][NextTwo]_vars

\* Threads that issue position-addressed single calls on one container, with
\* positions inside, at the end of and past the content.
PosNames ==
    {"at", "index", "set", "insert", "erase", "replace", "substr", "copy", "compare"}

PosOps ==
    { Op("at", 0, 0, << >>), Op("at", 1, 0, << >>),
      Op("index", 0, 0, << >>), Op("index", 1, 0, << >>), Op("index", 2, 0, << >>),
      Op("set", 0, 0, <<"b">>), Op("set", 1, 0, <<"a">>),
      Op("insert", 0, 0, <<"b">>), Op("insert", 2, 0, <<"a">>),
      Op("erase", 0, 1, << >>), Op("erase", 1, npos, << >>), Op("erase", 2, 1, << >>),
      Op("replace", 0, 1, <<"a">>), Op("replace", 2, 3, <<"b">>),
      Op("substr", 1, 1, << >>), Op("substr", 2, npos, << >>),
      Op("copy", 1, 2, << >>), Op("copy", 3, 1, << >>),
      Op("compare", 0, 1, <<"a">>), Op("compare", 2, 1, <<"b">>) }

NextPos ==
    \/ \E t \in Threads, op \in PosOps : call_begin(t, "A", op)
    \/ \E t \in Threads : call_enter(t)
    \/ \E t \in Threads : call_leave(t)

SpecPos == Init /\ [][NextPos]_vars

\* testJstr(), the swap part: std::string ext = "EXTERNAL"; ms.swap(ext);
\* ms.swap(ext); jstr ms2 = "other"; ms2.swap(ms); ms2.swap(ms). ms is "A",
\* ms2 is "B", ext is the local string of the thread; a second thread reads
\* both containers meanwhile and writes nothing.
ms0 == <<"a", "b">>
other == <<"o">>
EXTERNAL == <<"E", "X", "T">>

InitSwap ==
    /\ s_ = [c \in Objects |->
                CASE c = "A" -> ms0 [] c = "B" -> other [] OTHER -> << >>]
    /\ m_ = [c \in Objects |-> free]
    /\ tls_owner_ = [t \in Threads |-> nullptr]
    /\ sess = [t \in Threads |-> << >>]
    /\ call = [t \in Threads |-> Idle]
    /\ ret = [t \in Threads |-> <<"none">>]
    /\ lin = s_
    /\ aborted = << >>
    /\ NDEBUG \in BOOLEAN
    /\ snap = [t \in Threads |-> IF t = "t1" THEN <<"str", EXTERNAL>> ELSE <<"none">>]
    /\ max_size = MaxLen
    /\ pc = [t \in Threads |-> 0]

\* The statement thread t was executing has returned: on to the next one.
statement_done(t) ==
    /\ aborted = << >>
    /\ call[t].kind = "idle"
    /\ ret[t] # <<"none">>
    /\ pc[t] < 4
    /\ pc' = [pc EXCEPT ![t] = @ + 1]
    /\ ret' = [ret EXCEPT ![t] = <<"none">>]
    /\ UNCHANGED <<s_, m_, tls_owner_, sess, call, lin, aborted, NDEBUG, snap, max_size>>

NextSwap ==
    \/ /\ pc["t1"] \in {0, 1} /\ ret["t1"] = <<"none">>
       /\ call_begin("t1", "A", Op("swap_str", 0, 0, snap["t1"][2]))
    \/ /\ pc["t1"] \in {2, 3} /\ ret["t1"] = <<"none">>
       /\ cross_begin("t1", "B", "A", "swap")
    \/ statement_done("t1")
    \/ \E c \in Containers, op \in {Op("str", 0, 0, << >>), Op("size", 0, 0, << >>)} :
            call_begin("t2", c, op)
    \/ \E t \in Threads : call_enter(t)
    \/ \E t \in Threads : call_leave(t)
    \/ std_lock_first("t1")
    \/ std_lock_try("t1")
    \/ std_lock_backoff("t1")
    \/ cross_end("t1", FALSE)

SpecSwap == InitSwap /\ [][NextSwap]_vars

\* Threads that take snapshots (str, substr, copy) of one container and keep
\* them while the container is written.
SnapOps ==
    { Op("str", 0, 0, << >>), Op("substr", 1, npos, << >>), Op("copy", 0, 1, << >>),
      Op("assign", 0, 0, <<"b", "a">>), Op("clear", 0, 0, << >>) }

NextSnap ==
    \/ \E t \in Threads, op \in SnapOps : call_begin(t, "A", op)
    \/ \E t \in Threads : call_enter(t)
    \/ \E t \in Threads : call_leave(t)
    \/ \E t \in Threads : snapshot(t)

SpecSnap == Init /\ [][NextSnap]_vars

\* Threads that issue nothing but single calls on one container.
CallOps ==
    { Op("assign", 0, 0, <<"b">>), Op("append", 0, 0, <<"a">>),
      Op("insert", 1, 0, <<"b">>), Op("erase", 0, 1, << >>),
      Op("replace", 1, 1, <<"a">>), Op("push_back", 0, 0, <<"b">>),
      Op("clear", 0, 0, << >>), Op("str", 0, 0, << >>),
      Op("size", 0, 0, << >>), Op("eq", 0, 0, <<"a">>) }

NextCalls ==
    \/ \E t \in Threads, op \in CallOps : call_begin(t, "A", op)
    \/ \E t \in Threads : call_enter(t)
    \/ \E t \in Threads : call_leave(t)

SpecCalls == Init /\ [][NextCalls]_vars

\* testAtomicity(): j2::MutexString ms("start"); the writer thread assigns
\* "hello" or "world"; the reader thread compares with "hello", takes a
\* snapshot with str() and reads through a guard.
start == <<"s", "t", "a", "r", "t">>
hello == <<"h", "e", "l", "l", "o">>
world == <<"w", "o", "r", "l", "d">>

InitAtomicity ==
    /\ s_ = [c \in Objects |->
                CASE c = "A" -> start [] c = "B" -> <<"b">> [] OTHER -> << >>]
    /\ m_ = [c \in Objects |-> free]
    /\ tls_owner_ = [t \in Threads |-> nullptr]
    /\ sess = [t \in Threads |-> << >>]
    /\ call = [t \in Threads |-> Idle]
    /\ ret = [t \in Threads |-> <<"none">>]
    /\ lin = s_
    /\ aborted = << >>
    /\ NDEBUG \in BOOLEAN
    /\ snap = [t \in Threads |-> <<"none">>]
    /\ max_size = MaxLen
    /\ pc = [t \in Threads |-> 0]

WriterOps == {Op("assign", 0, 0, hello), Op("assign", 0, 0, world)}
ReaderOps == {Op("eq", 0, 0, hello), Op("str", 0, 0, << >>)}

NextAtomicity ==
    \/ \E op \in WriterOps : call_begin("t1", "A", op)
    \/ \E op \in ReaderOps : call_begin("t2", "A", op)
    \/ \E t \in Threads : call_enter(t)
    \/ \E t \in Threads : call_leave(t)
    \/ synchronize("t2", "A", TRUE)
    \/ Locked_ctor("t2")
    \/ buffer_access_begin("t2", 1, Op("str", 0, 0, << >>))
    \/ buffer_access_end("t2")
    \/ Locked_dtor("t2")
    \/ mutex_relock("t2")

SpecAtomicity == InitAtomicity /\ [][NextAtomicity]_vars

\* Check-then-act on the container of testAtomicity(): thread t2 checks with
\* the single call ms == "hello" and acts with further single calls; thread
\* t1 assigns by single calls and also checks and acts inside one guard or
\* one with() callback.
CheckOps == {Op("eq", 0, 0, hello), Op("str", 0, 0, << >>), Op("assign", 0, 0, hello)}
ActOps == {Op("eq", 0, 0, hello), Op("assign", 0, 0, world)}

NextToctou ==
    \/ \E op \in WriterOps : call_begin("t1", "A", op)
    \/ \E op \in CheckOps : call_begin("t2", "A", op)
    \/ \E t \in Threads : call_enter(t)
    \/ \E t \in Threads : call_leave(t)
    \/ synchronize("t1", "A", TRUE)
    \/ Locked_ctor("t1")
    \/ Locked_dtor("t1")
    \/ with_lock("t1", "A", TRUE)
    \/ with_lock_acquire("t1")
    \/ with_lock_return("t1", FALSE)
    \/ \E op \in ActOps : buffer_access_begin("t1", 1, op)
    \/ buffer_access_end("t1")
    \/ mutex_relock("t1")

SpecToctou == InitAtomicity /\ [][NextToctou]_vars

\* testJstr(), the insert / push_back part: one thread, jstr ms = "start",
\* then insert(0, "["), push_back(']'), insert(1, 3, '*') and
\* insert(ms.size(), " tail"); append(" tail") stands beside the last one.
tail == <<" ", "t", "a", "i", "l">>

InitJstr ==
    /\ s_ = [c \in Objects |->
                CASE c = "A" -> start [] c = "B" -> <<"b">> [] OTHER -> << >>]
    /\ m_ = [c \in Objects |-> free]
    /\ tls_owner_ = [t \in Threads |-> nullptr]
    /\ sess = [t \in Threads |-> << >>]
    /\ call = [t \in Threads |-> Idle]
    /\ ret = [t \in Threads |-> <<"none">>]
    /\ lin = s_
    /\ aborted = << >>
    /\ NDEBUG \in BOOLEAN
    /\ snap = [t \in Threads |-> <<"none">>]
    /\ max_size = TestLen
    /\ pc = [t \in Threads |-> 0]

JstrOps(size) ==
    { Op("insert", 0, 0, <<"[">>), Op("push_back", 0, 0, <<"]">>),
      Op("insert_n", 1, 3, <<"*">>), Op("insert", size, 0, tail),
      Op("append", 0, 0, tail) }

NextJstr ==
    \/ \E op \in JstrOps(Len(s_["A"])) : call_begin("t1", "A", op)
    \/ call_enter("t1")
    \/ call_leave("t1")

SpecJstr == InitJstr /\ [][NextJstr]_vars

\* Threads that run callbacks under with_lock (both overloads) next to
\* single calls.
NextWith ==
    \/ \E t \in Threads, c \in Containers, mut \in BOOLEAN : with_lock(t, c, mut)
    \/ \E t \in Threads : with_lock_acquire(t)
    \/ \E t \in Threads, thrown \in BOOLEAN : with_lock_return(t, thrown)
    \/ \E t \in Threads, i \in 1..MaxSess, op \in Ops : buffer_access_begin(t, i, op)
    \/ \E t \in Threads : buffer_access_end(t)
    \/ \E t \in Threads, c \in Containers, op \in Ops : call_begin(t, c, op)
    \/ \E t \in Threads : call_enter(t)
    \/ \E t \in Threads : call_leave(t)
    \/ \E t \in Threads : mutex_relock(t)

SpecWith == Init /\ [][NextWith]_vars

\* Threads that open sessions (guard, with_lock) on one container and call
\* into it, also from inside their own session.
NextReentry ==
    \/ \E t \in Threads, op \in Ops : call_begin(t, "A", op)
    \/ \E t \in Threads : call_enter(t)
    \/ \E t \in Threads : call_leave(t)
    \/ \E t \in Threads : synchronize(t, "A", TRUE)
    \/ \E t \in Threads : Locked_ctor(t)
    \/ \E t \in Threads : Locked_dtor(t)
    \/ \E t \in Threads : with_lock(t, "A", TRUE)
    \/ \E t \in Threads : with_lock_acquire(t)
    \/ \E t \in Threads, thrown \in BOOLEAN : with_lock_return(t, thrown)
    \/ \E t \in Threads : mutex_relock(t)

SpecReentry == Init /\ [][NextReentry]_vars

\* Threads that take guards from either overload of guard() / synchronize()
\* and use their accessors.
NextDeref ==
    \/ \E t \in Threads, c \in Containers, mut \in BOOLEAN : synchronize(t, c, mut)
    \/ \E t \in Threads : Locked_ctor(t)
    \/ \E t \in Threads : Locked_dtor(t)
    \/ \E t \in Threads, i \in 1..MaxSess, form \in {"arrow", "star"}, cnst \in BOOLEAN :
            Locked_deref(t, i, form, cnst)
    \/ \E t \in Threads : mutex_relock(t)

SpecDeref == Init /\ [][NextDeref]_vars

\* Thread t1 repeats A = B, A = std::move(B) or A.swap(B) while thread t2
\* repeats B = A, B = std::move(A) or B.swap(A).
NextOpposite ==
    \/ \E n \in CrossNames : cross_begin("t1", "A", "B", n)
    \/ \E n \in CrossNames : cross_begin("t2", "B", "A", n)
    \/ \E t \in Threads : std_lock_first(t)
    \/ \E t \in Threads : std_lock_try(t)
    \/ \E t \in Threads : std_lock_backoff(t)
    \/ \E t \in Threads, keep \in BOOLEAN : cross_end(t, keep)

\* std::lock gets its first mutex at a moment when the other one is free.
std_lock_clear(t) ==
    std_lock_first(t) /\ m_[LockSeq(call[t])[3 - call[t].first]] = free

\* std::lock gets the second mutex: both are held.
std_lock_done(t) == std_lock_try(t) /\ call'[t].phase = "in"

\* Fair scheduling. Every thread keeps running: a step it can take without
\* interruption is eventually taken (weak fairness of each step). std::mutex hands a free
\* mutex to any of the threads asking for it and std::lock yields between
\* attempts, so no thread loses every race: a thread that again and again
\* could take its first mutex with the other one free, or could take the
\* second one, eventually does (strong fairness of these two steps).
FairOpposite ==
    /\ WF_vars(\E n \in CrossNames : cross_begin("t1", "A", "B", n))
    /\ WF_vars(\E n \in CrossNames : cross_begin("t2", "B", "A", n))
    /\ \A t \in Threads :
          /\ WF_vars(std_lock_first(t))
          /\ WF_vars(std_lock_try(t))
          /\ WF_vars(std_lock_backoff(t))
          /\ WF_vars(\E keep \in BOOLEAN : cross_end(t, keep))
          /\ SF_vars(std_lock_clear(t))
          /\ SF_vars(std_lock_done(t))

SpecOpposite == Init /\ [][NextOpposite]_vars /\ FairOpposite

\* ------------------------------------------------------------ vocabulary
Others(t) == Threads \ {t}

\* Thread t is inside a single call on c, past its scoped_lock.
InCall(t, c) ==
    call[t].kind = "call" /\ call[t].c = c /\ call[t].phase = "in"

\* Thread t has a scope object of the given kind on c that owns the lock.
Live(t, c, kind) ==
    \E i \in 1..Len(sess[t]) :
        sess[t][i].kind = kind /\ sess[t][i].c = c /\ sess[t][i].owns

LiveGuard(t, c) == Live(t, c, "guard")
LiveView(t, c) == Live(t, c, "cstr")
InCallback(t, c) == Live(t, c, "with")

\* Thread t is inside a two-container operation or a copy / move
\* construction that has locked c.
InCross(t, c) ==
    \/ /\ call[t].kind = "cross"
       /\ \/ call[t].phase = "in" /\ c \in {call[t].c, call[t].o}
          \/ call[t].phase \in {"try_rest", "backoff"}
               /\ c = LockSeq(call[t])[call[t].first]
    \/ call[t].kind = "ctor" /\ call[t].phase = "in" /\ c = call[t].o

\* Thread t has a lock object (scoped_lock or unique_lock) that owns c's mutex.
OwnsLockOf(t, c) ==
    InCall(t, c) \/ LiveGuard(t, c) \/ LiveView(t, c) \/ InCallback(t, c)
      \/ InCross(t, c)

\* Thread t is in the middle of a std::string operation on c's buffer.
Accessing(t, c) ==
    \/ InCall(t, c)
    \/ call[t].kind = "access" /\ call[t].c = c
    \/ /\ call[t].kind \in {"cross", "ctor"} /\ call[t].phase = "in"
       /\ c \in {call[t].c, call[t].o}

\* Thread t has asked for c's mutex and has not got it yet.
Requests(t, c) ==
    \/ /\ call[t].kind \in {"call", "guard", "cguard", "cstr"}
       /\ call[t].c = c /\ call[t].phase = "lock"
    \/ sess[t] # << >> /\ Top(t).kind = "with" /\ ~Top(t).owns /\ Top(t).c = c

\* ---------------------------------------------------------------- claims

\* C1: in every reachable state at most one thread holds a container's lock,
\* and every std::string operation under way on the buffer (single call,
\* through a guard, through a raw view, inside a callback) is performed by
\* the thread that holds the container's mutex.
C1_MutualExclusion ==
    \A c \in Containers :
        /\ Cardinality({t \in Threads : OwnsLockOf(t, c)}) <= 1
        /\ \A t \in Threads :
              /\ OwnsLockOf(t, c) => m_[c] = t
              /\ Accessing(t, c) => m_[c] = t

\* t1 is in the middle of an operation through its guard on A, t2 holds a
\* raw view of B and waits in a single call for A's mutex.
C1_Witness ==
    /\ call["t1"].kind = "access" /\ call["t1"].c = "A" /\ LiveGuard("t1", "A")
    /\ LiveView("t2", "B")
    /\ Requests("t2", "A")

\* C2: single calls on one container are linearizable: in the order in which
\* the calls leave, each call returns what it returns when run alone on the
\* content left by the calls before it, and the buffer ends as that
\* sequential run leaves it (lin is the content of the sequential run).
C2_Linearizable ==
    /\ [](\A c \in Containers : m_[c] = free => s_[c] = lin[c])
    /\ [][\A t \in Threads :
            (call[t].kind = "call" /\ call[t].phase = "in" /\ call'[t].kind = "idle")
              => /\ ret'[t] = Ret(call[t].op, lin[call[t].c])
                 /\ s_'[call[t].c] = lin'[call[t].c]]_vars

\* A call is inside while the other thread's call waits, after completed
\* calls have grown the content to three characters.
C2_Witness ==
    /\ InCall("t1", "A") /\ call["t1"].op.name = "erase"
    /\ Requests("t2", "A") /\ call["t2"].op.name = "size"
    /\ Len(lin["A"]) = 3
    /\ ret["t1"] = <<"none">>

\* C3: while the writer assigns "hello" or "world", every value the reader
\* obtains from str(), from == or through a guard is "start", "hello" or
\* "world" as a whole: each read operates on a whole value, str() returns a
\* whole value, and == answers true only when the content is "hello".
Whole == {start, hello, world}

C3_WholeValues ==
    /\ []((call["t2"].kind \in {"call", "access"} /\ call["t2"].phase = "in")
            => call["t2"].tmp \in Whole)
    /\ [][(call["t2"].phase = "in" /\ call'["t2"].kind = "idle")
            => /\ call["t2"].op.name = "str" => ret'["t2"][2] \in Whole
               /\ call["t2"].op.name = "eq" =>
                    (ret'["t2"][2] <=> s_["A"] = hello)]_vars

\* The reader holds the snapshot "hello" it got from str() while the writer
\* is half way through overwriting the buffer.
C3_Witness ==
    /\ InCall("t1", "A") /\ s_["A"] \notin Whole
    /\ ret["t2"] = <<"str", hello>>

\* C4: while thread t holds a live guard on c, t holds c's mutex and no other
\* thread is inside a single call, guard, raw view or callback on c; the
\* buffer and its sequential history change only in steps of t's own
\* operations through a session on c and no other thread gets a result from
\* c, so what one access through the guard leaves is what the next one finds.
C4_GuardExcludes ==
    /\ [](\A t \in Threads, c \in Containers :
            LiveGuard(t, c) =>
              /\ m_[c] = t
              /\ \A u \in Others(t) : ~OwnsLockOf(u, c) /\ ~Accessing(u, c))
    /\ [][\A t \in Threads, c \in Containers :
            LiveGuard(t, c) =>
              /\ (s_'[c] # s_[c] \/ lin'[c] # lin[c]) =>
                    /\ "access" \in {call[t].kind, call'[t].kind}
                    /\ c \in {call[t].c, call'[t].c}
              /\ \A u \in Others(t) :
                    (call[u].c = c /\ call'[u] # call[u]) => ret'[u] = ret[u]]_vars

\* t1 is half way through a mutation, through its guard on A, of the
\* content "a" it found there, while t2's single call on A waits.
C4_Witness ==
    /\ LiveGuard("t1", "A")
    /\ call["t1"].kind = "access" /\ call["t1"].op.name = "assign"
    /\ call["t1"].tmp = <<"a">>
    /\ Requests("t2", "A") /\ call["t2"].op.name = "assign"

\* C5: with_lock(f) takes the container's mutex before f runs, runs f once
\* on the container's own buffer (which a const callback leaves unchanged),
\* hands f's result or exception to the caller and releases the mutex on
\* return; while f runs no other thread's operation on the container is
\* inside, and the buffer changes only by f's own operations.
C5_WithLock ==
    /\ [](\A t \in Threads, c \in Containers :
            InCallback(t, c) =>
              /\ m_[c] = t
              /\ \A u \in Others(t) : ~OwnsLockOf(u, c) /\ ~Accessing(u, c))
    /\ [][\A t \in Threads :
            /\ \A c \in Containers :
                  InCallback(t, c) =>
                    /\ (s_'[c] # s_[c] \/ lin'[c] # lin[c]) =>
                          /\ "access" \in {call[t].kind, call'[t].kind}
                          /\ c \in {call[t].c, call'[t].c}
                          /\ \E i \in 1..Len(sess[t]) :
                                sess[t][i].c = c /\ sess[t][i].mut
                    /\ \A u \in Others(t) :
                          (call[u].c = c /\ call'[u] # call[u]) => ret'[u] = ret[u]
            /\ (sess[t] # << >> /\ Top(t).kind = "with") =>
                  \* f starts: the mutex was free and is now t's
                  \* (or t owns the mutex already, which is undefined: the
                  \* lock may throw, and then f is not run and nothing moves)
                  /\ (~Top(t).owns /\ sess'[t] # sess[t]) =>
                        \/ /\ m_[Top(t).c] = free /\ m_'[Top(t).c] = t
                           /\ sess'[t] = [sess[t] EXCEPT ![Len(sess[t])].owns = TRUE]
                        \/ /\ m_[Top(t).c] = t /\ m_' = m_ /\ s_' = s_
                           /\ sess'[t] = Pop(sess[t])
                           /\ ret'[t] = <<"throw", "system_error">>
                  \* with_lock returns: f has run, the mutex is released,
                  \* the caller gets what f returned or threw
                  /\ (Top(t).owns /\ Len(sess'[t]) < Len(sess[t])) =>
                        /\ Top(t).owns
                        /\ sess'[t] = Pop(sess[t])
                        /\ m_'[Top(t).c] = free
                        /\ ret'[t] \in {ret[t], <<"throw", "exception">>}
                  \* f is not run a second time
                  /\ (Top(t).owns /\ Len(sess'[t]) >= Len(sess[t])) =>
                        sess'[t][Len(sess[t])] = Top(t)]_vars

\* t1's callback on A is half way through a mutation of the content "a" it
\* found in the buffer while t2 has entered with_lock on A and waits.
C5_Witness ==
    /\ InCallback("t1", "A")
    /\ call["t1"].kind = "access" /\ call["t1"].op.name = "assign"
    /\ call["t1"].tmp = <<"a">>
    /\ Requests("t2", "A") /\ sess["t2"] # << >>

\* C6: a thread holds a container's mutex only while it has a single call
\* in progress, a live guard, a live raw view or a running callback on it:
\* guard destruction, callback return and exits by exception leave the
\* mutex released.
C6_ReleasedAfterSession ==
    \A t \in Threads, c \in Containers : m_[c] = t => OwnsLockOf(t, c)

\* t1's callback on A has ended by an exception and t1 has no session left;
\* t2 has since taken a guard on A.
C6_Witness ==
    /\ ret["t1"] = <<"throw", "exception">>
    /\ sess["t1"] = << >> /\ call["t1"].kind = "idle"
    /\ LiveGuard("t2", "A") /\ m_["A"] = "t2" /\ m_["B"] = free

\* C7: with t1 repeating A = B / A.swap(B) and t2 repeating B = A /
\* B.swap(A), the two threads are never both stuck waiting for a mutex, and
\* under fair scheduling every operation a thread has begun completes.
BlockedInLock(t) ==
    /\ call[t].kind = "cross" /\ call[t].phase = "lock_first"
    /\ m_[LockSeq(call[t])[call[t].first]] # free

C8_GuardReentryAsserts ==
    \A t \in Threads, c \in Containers :
        (~NDEBUG /\ LiveGuard(t, c)) =>
            ~(call[t].kind \in {"guard", "cguard"} /\ call[t].c = c
                /\ call[t].phase = "lock")

\* C9: in a debug build a single call, guard acquisition, raw-view
\* acquisition or with_lock entry on c asks for c's mutex only in a step
\* that found the thread's marker different from c; a mutex is acquired only
\* by a thread that has asked for it; and the assertion fires only on a
\* marker equal to the container entered, leaving locks, calls and sessions
\* as they were.
C9_CheckBeforeLock ==
    [][/\ \A t \in Threads, c \in Containers :
            /\ (~NDEBUG /\ ~Requests(t, c) /\ Requests(t, c)') => tls_owner_[t] # c
            /\ (m_[c] # t /\ m_'[c] = t) => Requests(t, c)
       /\ \A t \in Threads, c \in Containers :
            (aborted = << >> /\ aborted' = <<t, c>>) =>
                /\ ~NDEBUG
                /\ tls_owner_[t] = c
                /\ ~Requests(t, c)'
                /\ UNCHANGED <<m_, call, sess>>
       /\ \A t \in Threads, c \in Containers :
            (~NDEBUG /\ tls_owner_[t] = c /\ call'[t] # call[t]
               /\ call[t].kind = "idle" /\ call'[t].kind # "access")
              => call'[t].c # c]_vars

\* The assertion has fired in t1, which called into A while it held A's
\* mutex, at a moment when t2 was waiting for that mutex.
C9_Witness ==
    /\ aborted = <<"t1", "A">>
    /\ m_["A"] = "t1"
    /\ Requests("t2", "A")

\* C10: in a debug build a thread with a live guard or running callback on
\* c never waits for c's mutex in a single call, guard acquisition or
\* with_lock entry on c, whatever sessions on other containers it has opened
\* or closed meanwhile.
C10_SessionReentryAsserts ==
    \A t \in Threads, c \in Containers :
        (~NDEBUG /\ (LiveGuard(t, c) \/ InCallback(t, c))) =>
            ~(\/ call[t].kind \in {"call", "guard", "cguard"} /\ call[t].c = c
                   /\ call[t].phase = "lock"
              \/ sess[t] # << >> /\ Top(t).kind = "with" /\ ~Top(t).owns
                   /\ Top(t).c = c)

\* C11: in a debug build, when a session ends (guard destroyed, raw view
\* destroyed, with_lock returned) the thread's marker is again what it was
\* when that session was entered; so after an inner session on B closes
\* inside an open session on A the marker names A.
C11_MarkerRestored ==
    [][\A t \in Threads :
        (~NDEBUG /\ Len(sess'[t]) < Len(sess[t]))
            => tls_owner_'[t] = Top(t).was]_vars

\* C12: in a debug build the marker of a thread names only a container on
\* which the thread has an open guard or callback, and the assertion fires
\* only in a call that enters the container the marker names: entering a
\* different container B from inside a session on A never trips it.
HasSession(t, c) ==
    \E i \in 1..Len(sess[t]) :
        sess[t][i].c = c /\ sess[t][i].kind \in {"guard", "with"}

C12_OtherContainerAllowed ==
    /\ [](\A t \in Threads :
            (~NDEBUG /\ tls_owner_[t] # nullptr) => HasSession(t, tls_owner_[t]))
    /\ [][\A t \in Threads, c \in Containers :
            (aborted = << >> /\ aborted' = <<t, c>>)
                => tls_owner_[t] = c /\ HasSession(t, c)]_vars

\* A debug build in which t1, inside its guard on A, runs a callback on B
\* and is in the middle of an operation there; nothing has aborted.
C12_Witness ==
    /\ ~NDEBUG /\ aborted = << >>
    /\ LiveGuard("t1", "A") /\ InCallback("t1", "B")
    /\ call["t1"].kind = "access" /\ call["t1"].c = "B"

\* C13 as stated: copy construction, move construction, copy assignment,
\* move assignment and swap hold the mutexes of both objects for as long as
\* they read or write either buffer.
C13_BothLocksHeld ==
    \A t \in Threads :
        (call[t].kind \in {"cross", "ctor"} /\ call[t].phase = "in")
            => m_[call[t].c] = t /\ m_[call[t].o] = t

\* C13 amended: copy assignment, move assignment and swap hold both
\* mutexes, and copy / move construction holds the mutex of the source,
\* for as long as they read or write either buffer; the object under
\* construction is used by no other thread and its mutex stays free; and a
\* shared buffer changes only in a step of the thread that holds its mutex.
C13_LocksHeld ==
    /\ [](\A t \in Threads :
            /\ (call[t].kind = "cross" /\ call[t].phase = "in")
                  => m_[call[t].c] = t /\ m_[call[t].o] = t
            /\ (call[t].kind = "ctor" /\ call[t].phase = "in")
                  => /\ m_[call[t].o] = t /\ m_[call[t].c] = free
                     /\ \A u \in Others(t) :
                           ~Accessing(u, call[t].c) /\ ~Accessing(u, call[t].o)
            /\ \A c \in Containers :
                  Accessing(t, c) => \A u \in Others(t) : ~Accessing(u, c))
    /\ [][\A c \in Containers :
            s_'[c] # s_[c] => \E t \in Threads :
                /\ call'[t] # call[t]
                /\ m_[c] = t \/ m_'[c] = t]_vars

\* t1 is copying A into the object it constructs while t2, which wants to
\* swap A and B, holds B and finds A busy.
C13_Witness ==
    /\ call["t1"].kind = "ctor" /\ call["t1"].phase = "in" /\ call["t1"].o = "A"
    /\ call["t2"].kind = "cross" /\ call["t2"].op.name = "swap"
    /\ call["t2"].phase = "backoff" /\ m_["B"] = "t2"

\* A step of thread t inside std::scoped_lock(m1, m2) or the operation
\* under it.
CrossStep(t) ==
    \/ std_lock_first(t)
    \/ std_lock_try(t)
    \/ std_lock_backoff(t)
    \/ \E keep \in BOOLEAN : cross_end(t, keep)

\* Thread t is inside a two-container operation and cannot move: it is
\* blocked waiting for a mutex.
BlockedWaiting(t) == call[t].kind = "cross" /\ ~ENABLED CrossStep(t)

\* One thread holds c and is blocked, another holds d and is blocked.
CircularWait ==
    \E t \in Threads, c \in Containers :
        \E u \in Others(t), d \in Containers \ {c} :
            /\ m_[c] = t /\ BlockedWaiting(t)
            /\ m_[d] = u /\ BlockedWaiting(u)

BadPos(op, b) ==
    IF op.name \in {"at", "index", "set"} THEN op.pos >= Len(b)
    ELSE op.pos > Len(b)

\* C15: a position-addressed single call (at, operator[], set, insert,
\* erase, replace, substr, copy, compare) whose position is outside the
\* valid range for the current content ends with the bounds error, returns
\* no value and leaves the buffer as it was.
C15_BoundsError ==
    [][\A t \in Threads :
        (/\ call[t].kind = "call" /\ call[t].phase = "in" /\ call'[t].kind = "idle"
         /\ call[t].op.name \in PosNames
         /\ BadPos(call[t].op, call[t].tmp))
            => /\ ret'[t] = <<"throw", "out_of_range">>
               /\ s_'[call[t].c] = call[t].tmp]_vars

\* C16: erase(pos, count) with pos greater than the length raises the bounds
\* error and leaves the content alone; otherwise it returns normally and
\* removes k = min(count, length - pos) characters at pos (count may exceed
\* what remains, npos included): the new content is k shorter, keeps the
\* characters before pos and, after them, the old characters from pos + k on.
C16_Erase ==
    [][\A t \in Threads :
        (/\ call[t].kind = "call" /\ call[t].phase = "in" /\ call'[t].kind = "idle"
         /\ call[t].op.name = "erase")
            => LET b == call[t].tmp
                   p == call[t].op.pos
                   a == s_'[call[t].c]
               IN  IF p > Len(b)
                   THEN /\ ret'[t] = <<"throw", "out_of_range">>
                        /\ a = b
                   ELSE LET k == IF call[t].op.cnt < Len(b) - p
                                 THEN call[t].op.cnt ELSE Len(b) - p
                        IN  /\ ret'[t] = <<"self">>
                            /\ Len(a) = Len(b) - k
                            /\ \A i \in 1..p : a[i] = b[i]
                            /\ \A i \in (p + 1)..Len(a) : a[i] = b[i + k]]_vars

\* An erase(1, npos) is at work on a content of three or more characters and
\* completes leaving just the first one.
C16_Witness ==
    \E t \in Threads :
        /\ call[t].kind = "call" /\ call[t].phase = "in"
        /\ call[t].op = Op("erase", 1, npos, << >>)
        /\ Len(call[t].tmp) >= 3
        /\ ENABLED (call_leave(t) /\ s_'[call[t].c] = <<call[t].tmp[1]>>)

\* C17: a value returned by str(), substr() or copy() and kept by its caller
\* is an owned copy: no step of any thread, the keeper included, changes it,
\* whatever is written to the container afterwards; it changes only when
\* its keeper stores a newly returned value in it.
C17_SnapshotOwned ==
    [][\A t \in Threads :
        (snap[t] # <<"none">> /\ snap'[t] # snap[t])
            => /\ call[t].kind = "idle" /\ call'[t].kind = "idle"
               /\ ret[t][1] \in {"str", "copied"}
               /\ snap'[t] = ret[t]]_vars

\* A thread keeps a str() snapshot, has itself completed a mutating call
\* since, and the container now holds something else.
C17_Witness ==
    \E t \in Threads :
        /\ snap[t][1] = "str" /\ snap[t][2] # << >>
        /\ ret[t] = <<"self">>
        /\ \A u \in Threads : call[u].kind = "idle"
        /\ s_["A"] # snap[t][2]

\* C18: for content b and 0 <= pos <= |b|, insert(pos, s) leaves
\* b[0,pos) + s + b[pos,|b|), insert(pos, n, ch) leaves b[0,pos) + n times ch
\* + b[pos,|b|), push_back(ch) leaves b + ch, and insert(|b|, s) leaves what
\* append(s) leaves; from "start", insert(0, "["), push_back(']'),
\* insert(1, 3, '*') and insert(size, " tail") give "[start", "[start]",
\* "[***start]" and "[***start] tail".
C18_Insert ==
    [][(call["t1"].kind = "call" /\ call["t1"].phase = "in" /\ call'["t1"].kind = "idle")
        => LET b  == call["t1"].tmp
               op == call["t1"].op
               a  == s_'["A"]
               Placed(x) ==
                   /\ Len(a) = Len(b) + Len(x)
                   /\ \A i \in 1..op.pos : a[i] = b[i]
                   /\ \A i \in 1..Len(x) : a[op.pos + i] = x[i]
                   /\ \A i \in (op.pos + 1)..Len(b) : a[Len(x) + i] = b[i]
           IN  /\ (op.name = "insert" /\ op.pos <= Len(b)
                        /\ Len(b) + Len(op.str) <= max_size)
                     => /\ Placed(op.str)
                        /\ op.pos = Len(b)
                             => a = Result(Op("append", 0, 0, op.str), b)
               /\ (op.name = "insert_n" /\ op.pos <= Len(b)
                        /\ Len(b) + op.cnt <= max_size)
                     => Placed([i \in 1..op.cnt |-> op.str[1]])
               /\ (op.name = "push_back" /\ Len(b) < max_size)
                     => a = b \o op.str
               /\ (op.name = "append" /\ Len(b) + Len(op.str) <= max_size)
                     => a = Result(Op("insert", Len(b), 0, op.str), b)
               /\ (b = start /\ op = Op("insert", 0, 0, <<"[">>))
                     => a = <<"[", "s", "t", "a", "r", "t">>
               /\ (b = <<"[", "s", "t", "a", "r", "t">>
                        /\ op = Op("push_back", 0, 0, <<"]">>))
                     => a = <<"[", "s", "t", "a", "r", "t", "]">>
               /\ (b = <<"[", "s", "t", "a", "r", "t", "]">>
                        /\ op = Op("insert_n", 1, 3, <<"*">>))
                     => a = <<"[", "*", "*", "*", "s", "t", "a", "r", "t", "]">>
               /\ (b = <<"[", "*", "*", "*", "s", "t", "a", "r", "t", "]">>
                        /\ op = Op("insert", 10, 0, tail))
                     => a = <<"[", "*", "*", "*", "s", "t", "a", "r", "t", "]",
                              " ", "t", "a", "i", "l">>]_vars

\* The last call of the example, insert(size, " tail") on "[***start]", has
\* returned and the container holds "[***start] tail".
C18_Witness ==
    /\ call["t1"].kind = "idle"
    /\ ret["t1"] = <<"self">>
    /\ s_["A"] = <<"[", "*", "*", "*", "s", "t", "a", "r", "t", "]",
                   " ", "t", "a", "i", "l">>

\* C19: swap exchanges the contents of its two operands and the same swap
\* done twice restores them, nobody else writing in between: after
\* ms.swap(ext) the container holds what ext held and ext what the container
\* held, after the second ms.swap(ext) both are as at the start; likewise
\* ms2.swap(ms) between two containers, and its repetition.
C19_SwapInvolution ==
    (call["t1"].kind = "idle" /\ ret["t1"] = <<"none">> /\ aborted = << >>)
        => LET ms  == s_["A"]
               ms2 == s_["B"]
               ext == snap["t1"][2]
           IN  /\ pc["t1"] = 1 => (ms = EXTERNAL /\ ext = ms0 /\ ms2 = other)
               /\ pc["t1"] = 2 => (ms = ms0 /\ ext = EXTERNAL /\ ms2 = other)
               /\ pc["t1"] = 3 => (ms = other /\ ms2 = ms0 /\ ext = EXTERNAL)
               /\ pc["t1"] = 4 => (ms = ms0 /\ ms2 = other /\ ext = EXTERNAL)

\* Both pairs of swaps have been done, with the other thread reading in the
\* meantime.
C19_Witness ==
    /\ pc["t1"] = 4 /\ call["t1"].kind = "idle"
    /\ s_["A"] = ms0 /\ s_["B"] = other /\ snap["t1"] = <<"str", EXTERNAL>>
    /\ ret["t2"][1] = "str"

\* C20: in a debug build, while a thread holds a raw view (CStrGuard) of c,
\* its marker names c, and a call of that thread into c never gets as far as
\* waiting for c's mutex: the assertion has stopped it before.
C20_ViewSetsMarker ==
    \A t \in Threads, c \in Containers :
        (~NDEBUG /\ LiveView(t, c) /\ aborted = << >>)
            => /\ tls_owner_[t] = c \/ LiveGuard(t, c) \/ InCallback(t, c)
               /\ ~Requests(t, c)

\* C21: the tracker changes nothing but the marker: in a debug build the
\* assertion stops a thread only where the release build would have it
\* re-enter a container whose mutex it holds itself; a thread that enters a
\* container whose mutex it does not hold goes on as in the release build.
C21_TrackerTransparent ==
    [][\A t \in Threads, c \in Objects :
        (aborted = << >> /\ aborted' = <<t, c>>) => m_[c] = t]_vars

\* C22: early release never releases twice. A guard that has been unlocked
\* no longer owns the lock (owns_lock() is false) and the step that unlocked
\* it left the mutex free; the destruction of an unlocked guard and a second
\* unlock() on it (which throws) leave every mutex as it is; so a mutex
\* another thread has taken since stays with that thread.
C22_NoDoubleRelease ==
    /\ [](\A t \in Threads, c \in Containers :
            OwnsLockOf(t, c) => m_[c] = t)
    /\ [][\A t \in Threads :
            /\ \A i \in 1..Len(sess[t]) :
                  (/\ Len(sess'[t]) = Len(sess[t])
                   /\ sess[t][i].kind = "guard"
                   /\ sess[t][i].owns /\ ~sess'[t][i].owns)
                      => m_'[sess[t][i].c] = free
            /\ (/\ Len(sess'[t]) = Len(sess[t]) - 1
                /\ Top(t).kind = "guard" /\ ~Top(t).owns) => m_' = m_
            /\ (/\ sess'[t] = sess[t] /\ call'[t] = call[t]
                /\ ret'[t] # ret[t]) => m_' = m_]_vars

\* t1 has unlocked its guard on A and then called unlock() on it again,
\* which threw; t2 has taken a guard on A in the meantime; t1's guard is
\* about to be destroyed.
C22_Witness ==
    /\ sess["t1"] # << >> /\ Top("t1").kind = "guard" /\ Top("t1").c = "A"
    /\ ~Top("t1").owns
    /\ ret["t1"] = <<"throw", "system_error">>
    /\ LiveGuard("t2", "A") /\ m_["A"] = "t2"
    /\ ENABLED Locked_dtor("t1")

\* C23: whichever overload of guard() / synchronize() a guard comes from,
\* each of its accessors (operator-> and operator*, const and non-const)
\* hands back the buffer of the guard's container, never a null pointer.
C23_AccessorsDesignateBuffer ==
    [][\A t \in Threads :
        (/\ sess'[t] = sess[t] /\ call'[t] = call[t] /\ ret'[t] # ret[t]
         /\ aborted' = << >>)
            => \E i \in 1..Len(sess[t]) :
                  /\ sess[t][i].kind = "guard"
                  /\ ret'[t] \in {<<"arrow", sess[t][i].c>>, <<"star", sess[t][i].c>>}]_vars

\* C24: a single call that ends with the bounds error (at, set, insert,
\* erase, replace, substr, copy, compare) has never changed the buffer: the
\* content is what the call found, during the call and after it, and so is
\* the sequential history; the call leaves the container's mutex free, so
\* the next call of any thread can take it.
C24_FailureLeavesState ==
    /\ [](\A t \in Threads :
            (/\ call[t].kind = "call" /\ call[t].phase = "in"
             /\ call[t].op.name \in PosNames \ {"index"}
             /\ BadPos(call[t].op, call[t].tmp))
                => s_[call[t].c] = call[t].tmp)
    /\ [][\A t \in Threads :
            (/\ call[t].kind = "call" /\ call'[t].kind = "idle"
             /\ ret'[t] = <<"throw", "out_of_range">>)
                => /\ s_'[call[t].c] = call[t].tmp
                   /\ lin'[call[t].c] = lin[call[t].c]
                   /\ m_'[call[t].c] = free
                   /\ \A u \in Others(t) :
                         Requests(u, call[t].c) => (ENABLED call_enter(u))']_vars

\* t1's erase has ended with the bounds error on a non-empty content, and
\* t2, which entered after it, is inside its own call on the container.
C24_Witness ==
    /\ ret["t1"] = <<"throw", "out_of_range">> /\ call["t1"].kind = "idle"
    /\ InCall("t2", "A") /\ call["t2"].op.name = "insert"
    /\ call["t2"].tmp # << >>

\* C25: a check and an act made inside one guard or one with() callback are
\* never interleaved: while a thread holds the session no other thread is
\* inside the container, an in-session ms == "hello" that returns true has
\* read "hello", and between two of the holder's accesses the content stays
\* what the first one left, so the act finds what the check saw. (Two single
\* calls give no such thing: the witness is an execution in which
\* ms == "hello" returned true to t2 and t1's assignment has changed the
\* content before t2's next call.)
InSession(t, c) ==
    (LiveGuard(t, c) \/ InCallback(t, c))

C25_CheckThenAct ==
    /\ [](\A t \in Threads, c \in Containers :
            InSession(t, c) =>
              /\ m_[c] = t
              /\ \A u \in Others(t) : ~InCall(u, c) /\ ~Accessing(u, c))
    /\ [][\A t \in Threads, c \in Containers :
            /\ (InSession(t, c) /\ InSession(t, c)' /\ call[t].kind = "idle")
                  => \/ s_'[c] = s_[c] /\ lin'[c] = lin[c]
                     \/ call'[t].kind = "access" /\ call'[t].tmp = s_[c]
            /\ (/\ call[t].kind = "access" /\ call[t].c = c /\ call'[t].kind = "idle"
                /\ ret'[t] = <<"eq", TRUE>>)
                  => s_'[c] = call[t].op.str]_vars

\* The single call ms == "hello" has returned true to t2, which has not
\* called again yet, and the content is already "world", assigned by t1.
C25_Witness ==
    /\ ret["t2"] = <<"eq", TRUE>> /\ call["t2"].kind = "idle"
    /\ s_["A"] = world /\ lin["A"] = world
    /\ call["t1"].kind = "idle" /\ sess["t1"] = << >>
    /\ ENABLED call_begin("t2", "A", Op("str", 0, 0, << >>))

\* C26 as stated: in a release build a thread that holds a live guard or is
\* inside a callback on c and invokes a locking operation of c stays blocked
\* in it for ever: the call never returns.
SelfBlocked(t, c) == Requests(t, c) /\ m_[c] = t

C26_BlocksForever ==
    [][\A t \in Threads, c \in Containers :
        (NDEBUG /\ InSession(t, c) /\ SelfBlocked(t, c)) => SelfBlocked(t, c)']_vars

\* C26 amended: such a call never gets the mutex. It either stays blocked
\* or is ended by std::system_error out of lock(), the buffer, the mutex and
\* the outer session left as they were; for as long as it is blocked the
\* thread can do nothing else (the outer session is not released) and no
\* other thread that operates on c gets past its lock.
C26_NeverAcquires ==
    /\ [](\A t \in Threads, c \in Containers :
            (NDEBUG /\ InSession(t, c) /\ SelfBlocked(t, c))
                => /\ ~ENABLED (call_enter(t) \/ Locked_ctor(t) \/ with_lock_acquire(t)
                                   \/ Locked_dtor(t)
                                   \/ with_lock_return(t, FALSE))
                   /\ \A u \in Others(t) :
                         ~ENABLED (call_enter(u) \/ Locked_ctor(u)
                                     \/ with_lock_acquire(u)))
    /\ [][\A t \in Threads, c \in Containers :
            (NDEBUG /\ InSession(t, c) /\ SelfBlocked(t, c))
                => /\ m_' = m_ /\ s_' = s_
                   /\ InSession(t, c)'
                   /\ \/ SelfBlocked(t, c)'
                      \/ ret'[t] = <<"throw", "system_error">>]_vars

\* Release build: t1, holding a guard on A, is blocked in a single call on
\* A, and t2 waits for A's mutex behind it.
C26_Witness ==
    /\ NDEBUG
    /\ LiveGuard("t1", "A") /\ call["t1"].kind = "call" /\ SelfBlocked("t1", "A")
    /\ Requests("t2", "A")

\* ------------------------------------------------------------------- C27
\* Threads that only swap: A.swap(B), B.swap(A), swap(A, B), swap(B, A) and
\* the self-swaps, from both threads, in any interleaving. Every swap hands
\* the mutexes to std::scoped_lock in address order, so the try_lock inside
\* std::lock never fails and its back-off path is not taken
\* (C27_SwapPermutation checks that the "backoff" phase is never reached).
NextSwaps ==
    \/ \E t \in Threads, c, o \in Containers : cross_begin(t, c, o, "swap")
    \/ \E t \in Threads : std_lock_first(t)
    \/ \E t \in Threads : std_lock_try(t)
    \/ \E t \in Threads : cross_end(t, FALSE)

SpecSwaps == Init /\ [][NextSwaps]_vars

\* The contents of A and B are the initial pair, in one order or the other.
Permutation(b) ==
    \/ b["A"] = <<"a">> /\ b["B"] = <<"b">>
    \/ b["A"] = <<"b">> /\ b["B"] = <<"a">>

\* C27: with threads that only swap A and B, in either direction, the pair
\* of contents is always a permutation of the initial pair: no value is
\* duplicated or lost. The std::string swap in progress is hidden behind
\* both mutexes: the thread inside it holds the lock of A and of B, so the
\* contents anyone can read under a lock are a permutation in every state.
C27_SwapPermutation ==
    /\ Permutation(lin)
    /\ \A t \in Threads :
          (call[t].kind = "cross" /\ call[t].phase = "in")
             => /\ m_["A"] = t /\ m_["B"] = t
                /\ Permutation([c \in Objects |->
                        CASE c = call[t].c -> call[t].tmp[1]
                          [] c = call[t].o -> call[t].tmp[2]
                          [] OTHER -> s_[c]])
    /\ (\A t \in Threads : ~(call[t].kind = "cross" /\ call[t].phase = "in"))
          => Permutation(s_)
    /\ \A t \in Threads : call[t].phase # "backoff"

\* Both threads swap at once: t1 is inside A.swap(B) with both mutexes,
\* after an earlier swap has exchanged the contents, while t2 waits for the
\* first mutex of its own swap in the other direction, B.swap(A).
C27_Witness ==
    /\ call["t1"].kind = "cross" /\ call["t1"].phase = "in"
    /\ call["t1"].c = "A" /\ call["t1"].o = "B"
    /\ lin["A"] = <<"b">> /\ lin["B"] = <<"a">>
    /\ call["t2"].kind = "cross" /\ call["t2"].c = "B" /\ call["t2"].o = "A"
    /\ call["t2"].phase = "lock_first"

\* ------------------------------------------------------------------- C28
\* t1 copies B: A = B, and MutexString N(B). Meanwhile t2 rewrites B with
\* single calls and reads A.
InitCopy ==
    /\ s_ = [c \in Objects |->
                CASE c = "A" -> hello [] c = "B" -> world [] OTHER -> << >>]
    /\ m_ = [c \in Objects |-> free]
    /\ tls_owner_ = [t \in Threads |-> nullptr]
    /\ sess = [t \in Threads |-> << >>]
    /\ call = [t \in Threads |-> Idle]
    /\ ret = [t \in Threads |-> <<"none">>]
    /\ lin = s_
    /\ aborted = << >>
    /\ NDEBUG \in BOOLEAN
    /\ snap = [t \in Threads |-> <<"none">>]
    /\ max_size = MaxLen
    /\ pc = [t \in Threads |-> 0]

CopyWriterOps == {Op("assign", 0, 0, start), Op("assign", 0, 0, world)}

NextCopy ==
    \/ cross_begin("t1", "A", "B", "copy_assign")
    \/ std_lock_first("t1")
    \/ std_lock_try("t1")
    \/ std_lock_backoff("t1")
    \/ cross_end("t1", FALSE)
    \/ ctor_begin("t1", "B", "copy_ctor")
    \/ ctor_enter("t1")
    \/ ctor_end("t1", FALSE)
    \/ \E op \in CopyWriterOps : call_begin("t2", "B", op)
    \/ call_begin("t2", "A", Op("str", 0, 0, << >>))
    \/ call_enter("t2")
    \/ call_leave("t2")

SpecCopy == InitCopy /\ [][NextCopy]_vars

\* The thread is inside s_ = other.s_ of a copy assignment or construction.
Copying(t) ==
    /\ call[t].kind \in {"cross", "ctor"}
    /\ call[t].op.name \in {"copy_assign", "copy_ctor"}
    /\ call[t].phase = "in"

\* C28: A = B (distinct objects) and the copy construction of A from B
\* leave B's content unchanged and give A the content B held at one
\* instant at which B's lock was held by the copying thread. With a
\* concurrent writer on B the copy is one whole value of B, never a mix of
\* two, and no other thread sees A partly assigned: while the copy runs B's
\* mutex (and, for the assignment, A's) is held by the copying thread, no
\* other thread is inside A or B, and every read of A returns a whole value.
C28_CopyWhole ==
    /\ [](\A t \in Threads : Copying(t) =>
            /\ m_[call[t].o] = t
            /\ s_[call[t].o] = call[t].tmp[2]
            /\ s_[call[t].o] = lin[call[t].o]
            /\ (call[t].kind = "cross" => m_[call[t].c] = t)
            /\ \A u \in Others(t) :
                  ~(call[u].phase = "in" /\ call[u].c \in {call[t].c, call[t].o}))
    /\ [](\A t \in Threads : ret[t][1] = "str" => ret[t][2] \in Whole)
    /\ [][\A t \in Threads :
            (Copying(t) /\ call'[t].kind = "idle") =>
               /\ s_'[call[t].o] = s_[call[t].o]
               /\ lin'[call[t].o] = lin[call[t].o]
               /\ s_'[call[t].c] = s_[call[t].o]
               /\ lin'[call[t].c] = lin[call[t].o]
               /\ s_'[call[t].c] \in Whole]_vars

\* A = B has completed and copied the value the writer stored in B, and the
\* writer is inside its next assignment to B: B's buffer is half-written
\* while A holds one whole value.
C28_Witness ==
    /\ ret["t1"] = <<"self">> /\ call["t1"].kind = "idle"
    /\ s_["A"] = start
    /\ call["t2"].kind = "call" /\ call["t2"].phase = "in" /\ call["t2"].c = "B"
    /\ s_["B"] \notin Whole

\* ------------------------------------------------------------------- C29
\* Threads that issue only single calls, on either container.
FairOps == {Op("size", 0, 0, << >>), Op("append", 0, 0, <<"a">>)}

NextFairCalls ==
    \/ \E t \in Threads, c \in Containers, op \in FairOps : call_begin(t, c, op)
    \/ \E t \in Threads : call_enter(t)
    \/ \E t \in Threads : call_leave(t)

\* Fair scheduling. A thread inside the std::string operation keeps running
\* and returns (weak fairness of call_leave). A thread waiting in
\* std::scoped_lock does not lose every race for the mutex: if the mutex is
\* free again and again, the thread eventually gets it (strong fairness of
\* call_enter). Nothing obliges a thread to begin a call.
FairCalls ==
    \A t \in Threads : WF_vars(call_leave(t)) /\ SF_vars(call_enter(t))

SpecFairCalls == Init /\ [][NextFairCalls]_vars /\ FairCalls

\* The mutexes the thread has locked.
Held(t) == {c \in Objects : m_[c] = t}

peer_relock(t) ==
    /\ aborted = << >>
    /\ \/ call[t].kind = "cross" /\ call[t].phase = "lock_first"
          /\ m_[LockSeq(call[t])[call[t].first]] = t
       \/ call[t].kind = "ctor" /\ call[t].phase = "lock"
          /\ m_[call[t].o] = t
    /\ IF call[t].op.name \in {"move_assign", "move_ctor"}
       THEN Abort(t, call[t].o)
       ELSE /\ call' = [call EXCEPT ![t] = Idle]
            /\ ret' = [ret EXCEPT ![t] = <<"throw", "system_error">>]
            /\ UNCHANGED <<s_, m_, tls_owner_, sess, lin, aborted, NDEBUG, snap, max_size, pc>>

\* Threads that hold guards on B and meanwhile assign from B, swap with B
\* and construct from B.
NextPeer ==
    \/ \E t \in Threads : synchronize(t, "B", TRUE)
    \/ \E t \in Threads : Locked_ctor(t)
    \/ \E t \in Threads : Locked_dtor(t)
    \/ \E t \in Threads : mutex_relock(t)
    \/ \E t \in Threads, n \in CrossNames : cross_begin(t, "A", "B", n)
    \/ \E t \in Threads : std_lock_first(t)
    \/ \E t \in Threads : std_lock_try(t)
    \/ \E t \in Threads : std_lock_backoff(t)
    \/ \E t \in Threads, keep \in BOOLEAN : cross_end(t, keep)
    \/ \E n \in CtorNames : ctor_begin("t1", "B", n)
    \/ ctor_enter("t1")
    \/ \E keep \in BOOLEAN : ctor_end("t1", keep)
    \/ \E t \in Threads : peer_relock(t)

SpecPeer == Init /\ [][NextPeer]_vars

\* C30: in a debug build an operation asserts non-reentrancy for every
\* container whose lock it is about to acquire, the source or peer of a
\* copy / move construction, copy / move assignment and swap included: a
\* thread with a live session on a container never gets past the assertion
\* of A = B, of MutexString N(B) or of A.swap(B) into asking for that
\* container's lock.
C30_PeerAsserted ==
    \A t \in Threads, c \in Containers :
        (~NDEBUG /\ InSession(t, c)) =>
            ~(call[t].kind \in {"cross", "ctor"} /\ c \in {call[t].c, call[t].o})

\* ------------------------------------------------------------------- C31
\* Thread t, inside a session on c, has asked for the lock of d and cannot
\* get it: u holds it.
NestedWait(t, c, d, u) ==
    /\ c # d
    /\ InSession(t, c)
    /\ Requests(t, d)
    /\ m_[d] = u

\* C31: nested sessions on distinct containers are deadlock-free. Whatever
\* the order in which the threads nest the containers (t1: guard on A then
\* an operation on B; t2: guard on B then an operation on A), all threads
\* complete: the state in which each thread, inside its session, waits for
\* the lock the other thread's session holds is never reached.
C31_NestedDeadlockFree ==
    \A t \in Threads, c, d \in Containers :
        ~(\E u \in Others(t) : NestedWait(t, c, d, u) /\ NestedWait(u, d, c, t))

\* ------------------------------------------------------------------- C32
\* A std::string operation through operator-> / operator* of the i-th scope
\* of the thread, a guard released early: unlock() leaves s_ and cs_ as
\* they were, and the accessors return them without looking at lock_.
released_access_begin(t, i, op) ==
    /\ CanStart(t)
    /\ i \in 1..Len(sess[t])
    /\ sess[t][i].kind = "guard" /\ ~sess[t][i].owns
    /\ Accessor(sess[t][i], ~sess[t][i].mut) = sess[t][i].c
    /\ Permits(sess[t][i], op)
    /\ call' = [call EXCEPT ![t] =
            Call("access", sess[t][i].c, nullptr, op, s_[sess[t][i].c], "in", i)]
    /\ s_' = [s_ EXCEPT ![sess[t][i].c] = Torn(@, Result(op, @))]
    /\ ret' = [ret EXCEPT ![t] = <<"none">>]
    /\ UNCHANGED <<m_, tls_owner_, sess, lin, aborted, NDEBUG, snap, max_size, pc>>

\* Threads that take guards on A, release them early, go on using them, and
\* issue single calls on A.
NextUnlock ==
    \/ \E t \in Threads, mut \in BOOLEAN : synchronize(t, "A", mut)
    \/ \E t \in Threads : Locked_ctor(t)
    \/ \E t \in Threads, i \in 1..MaxSess : Locked_unlock(t, i)
    \/ \E t \in Threads : Locked_dtor(t)
    \/ \E t \in Threads, i \in 1..MaxSess, op \in Ops : buffer_access_begin(t, i, op)
    \/ \E t \in Threads, i \in 1..MaxSess, op \in Ops : released_access_begin(t, i, op)
    \/ \E t \in Threads : buffer_access_end(t)
    \/ \E t \in Threads, op \in Ops : call_begin(t, "A", op)
    \/ \E t \in Threads : call_enter(t)
    \/ \E t \in Threads : call_leave(t)
    \/ \E t \in Threads : mutex_relock(t)

SpecUnlock == Init /\ [][NextUnlock]_vars

\* C32: after Locked::unlock() the guard no longer gives access to the
\* buffer: a thread reads or writes a container's buffer through a guard's
\* accessors only while it holds the container's lock.
C32_UnlockInvalidates ==
    \A t \in Threads, c \in Containers :
        (call[t].kind = "access" /\ call[t].c = c) => m_[c] = t

\* ------------------------------------------------------------------- C33
\* C33: in a debug build the reentrancy assertion has no false positives:
\* whenever a thread's marker names a container, the thread is inside a
\* live session on it that has not been released: a guard that owns the
\* lock, or a with_lock that holds the lock or is about to acquire it. So
\* once all sessions of a thread have ended or been released early with
\* unlock(), also with a nested session on another container open at that
\* time, its marker is empty.
C33_MarkerNamesLiveSession ==
    \A t \in Threads, c \in Containers :
        (~NDEBUG /\ tls_owner_[t] = c) =>
            \E i \in 1..Len(sess[t]) :
                /\ sess[t][i].c = c
                /\ \/ sess[t][i].kind = "guard" /\ sess[t][i].owns
                   \/ sess[t][i].kind = "with"

\* ------------------------------------------------------------------- C34
\* Threads that open guards and callbacks on the containers and, inside and
\* outside them, execute a = a, a = std::move(a) and a.swap(a).
NextSelf ==
    \/ \E t \in Threads, c \in Containers : synchronize(t, c, TRUE)
    \/ \E t \in Threads : Locked_ctor(t)
    \/ \E t \in Threads : Locked_dtor(t)
    \/ \E t \in Threads, c \in Containers : with_lock(t, c, TRUE)
    \/ \E t \in Threads : with_lock_acquire(t)
    \/ \E t \in Threads, thrown \in BOOLEAN : with_lock_return(t, thrown)
    \/ \E t \in Threads : mutex_relock(t)
    \/ \E t \in Threads, c \in Containers, n \in CrossNames : cross_begin(t, c, c, n)

SpecSelf == Init /\ [][NextSelf]_vars

\* C34: self-assignment (copy or move) and self-swap are no-ops. The call
\* returns in one step that acquires no lock, runs no reentrancy check (it
\* never asserts) and leaves contents, locks, marker and sessions as they
\* were; and it can always be taken by a running thread, also in a debug
\* build inside a live session of that thread on the same container: it
\* neither asserts nor waits.
C34_SelfNoOp ==
    /\ [][\A t \in Threads, c \in Containers, n \in CrossNames :
            cross_begin(t, c, c, n) =>
                /\ UNCHANGED <<s_, lin, m_, tls_owner_, sess, call, aborted>>
                /\ ~Requests(t, c)'
                /\ ret'[t] = <<"self">>]_vars
    /\ [](\A t \in Threads, c \in Containers, n \in CrossNames :
            (CanStart(t) /\ InSession(t, c)) =>
                ENABLED (cross_begin(t, c, c, n) /\ aborted' = aborted
                            /\ call'[t].kind = "idle"))

\* Debug build: t1 holds a live guard on A, which t2 is waiting for, its
\* marker names A, and its self-assignment of A has returned.
C34_Witness ==
    /\ ~NDEBUG /\ aborted = << >>
    /\ LiveGuard("t1", "A") /\ tls_owner_["t1"] = "A" /\ m_["A"] = "t1"
    /\ ret["t1"] = <<"self">>
    /\ Requests("t2", "A")

\* ------------------------------------------------------------------- C35
\* A const char* argument: the null pointer, or a pointer to a
\* NUL-terminated array holding the characters x.
NullPtr == [null |-> TRUE, chars |-> << >>]
CPtr(x) == [null |-> FALSE, chars |-> x]

\* A conversion that renders a null pointer as the text "(null)".
OrEmpty_as_text(p) == IF p.null THEN <<"(null)">> ELSE p.chars

\* (s ? s : ""): the std::string built from the raw-string argument.
OrEmpty(p) == IF p.null THEN << >> ELSE p.chars

\* The std::string operation a raw-string member applies to s_.
StdOp(member) ==
    CASE member = "operator="  -> "assign"
      [] member = "operator+=" -> "append"
      [] member = "operator==" -> "eq"
      [] OTHER                 -> member

\* Entry of a member taking a const char*: the member is a single call whose
\* std::string operation receives (s ? s : "").
raw_call_begin(t, c, member, pos, cnt, p) ==
    call_begin(t, c, Op(StdOp(member), pos, cnt, OrEmpty(p)))

\* MutexString(const char* s) : s_(s ? s : "") constructing the thread's
\* local N: no lock, no assertion.
ctor_cstr(t, p) ==
    /\ CanStart(t)
    /\ s_' = [s_ EXCEPT !["N"] = OrEmpty(p)]
    /\ lin' = [lin EXCEPT !["N"] = OrEmpty(p)]
    /\ ret' = [ret EXCEPT ![t] = <<"constructed">>]
    /\ UNCHANGED <<m_, tls_owner_, sess, call, aborted, NDEBUG, snap, max_size, pc>>

\* The raw-string arguments, positions and counts the program passes.
RawArgs == {NullPtr, CPtr(<<"b">>)}
RawPos == {0, 1, npos}
RawCnt == {1, npos}

\* The raw-string members with the positions and counts they take.
RawCalls ==
    {<<m, 0, 0>> : m \in {"operator=", "assign", "append", "operator+=", "operator=="}}
      \cup {<<"insert", i, 0>> : i \in RawPos}
      \cup {<<"replace", i, k>> : i \in RawPos, k \in RawCnt}
      \cup {<<f, i, 0>> : f \in FindNames, i \in RawPos}

NextRaw ==
    \/ \E r \in RawCalls, p \in RawArgs : raw_call_begin("t1", "A", r[1], r[2], r[3], p)
    \/ call_enter("t1")
    \/ call_leave("t1")
    \/ \E p \in RawArgs : ctor_cstr("t1", p)

SpecRaw == Init /\ [][NextRaw]_vars

\* C35: a null raw-string argument is the empty string for every
\* raw-string overload. The member entered with null runs its std::string
\* operation on ""; construction and assignment then yield empty content,
\* append, += and insert leave the content unchanged, replace removes the
\* addressed range, == is true exactly when the content is empty, and the
\* find family answers as for the empty string: find the start position if
\* it is within the string, rfind the lower of pos and size(), the *_of
\* searches nothing, the *_not_of searches the first / last position in
\* range.
C35_NullIsEmpty ==
    [][/\ \A r \in RawCalls :
            raw_call_begin("t1", "A", r[1], r[2], r[3], NullPtr)
                => /\ call'["t1"].op.str = << >>
                   /\ call'["t1"].op.name = StdOp(r[1])
       /\ ctor_cstr("t1", NullPtr) => s_'["N"] = << >>
       /\ (call["t1"].kind = "call" /\ call["t1"].phase = "in"
             /\ call'["t1"].kind = "idle" /\ call["t1"].op.str = << >>) =>
            LET op == call["t1"].op
                b == call["t1"].tmp
                n == Len(b)
                out == ret'["t1"]
            IN  /\ op.name = "assign" => s_'["A"] = << >>
                /\ op.name \in {"append", "insert"} => s_'["A"] = b
                /\ (op.name = "replace" /\ op.pos <= n) =>
                        s_'["A"] = Erase(b, op.pos, op.cnt)
                /\ (op.name = "replace" /\ op.pos > n) => s_'["A"] = b
                /\ op.name = "eq" => out = <<"eq", n = 0>>
                /\ op.name = "find" =>
                        out = <<"pos", IF op.pos <= n THEN op.pos ELSE npos>>
                /\ op.name = "rfind" => out = <<"pos", Min(op.pos, n)>>
                /\ op.name \in {"find_first_of", "find_last_of"} =>
                        out = <<"pos", npos>>
                /\ op.name = "find_first_not_of" =>
                        out = <<"pos", IF op.pos < n THEN op.pos ELSE npos>>
                /\ op.name = "find_last_not_of" =>
                        out = <<"pos", IF n = 0 THEN npos ELSE Min(op.pos, n - 1)>>]_vars

\* The content of A is empty, which only an assignment from null or a
\* replace with null brings about (every other argument is "b"), and
\* A == nullptr has answered true.
C35_Witness ==
    /\ call["t1"].kind = "idle"
    /\ s_["A"] = << >> /\ lin["A"] = << >>
    /\ ret["t1"] = <<"eq", TRUE>>
====
